---- MODULE Spec2Model ----
(***************************************************************************)
(* A model of gosh-model's external-process compute layer:                 *)
(*   - BlackBoxModel (src/src/blackbox.rs, src/src/blackbox/cmd.rs): the   *)
(*     orchestrator with its lazily created scratch directory, its         *)
(*     persistent engine process (interactive mode) and the per-call       *)
(*     child process;                                                      *)
(*   - the operating-system side the orchestrator acts on: the table of    *)
(*     spawned processes and the table of scratch directories;             *)
(*   - Task (src/src/task.rs): the streaming interactive session with one  *)
(*     long-lived engine process, driven through its stdin and stdout and  *)
(*     paused and resumed by a control script;                             *)
(*   - the result parser (src/src/model_properties.rs): parse_all and      *)
(*     parse() over a text of result documents, section headers with       *)
(*     modifiers, and the text that Display writes for a Computed value;   *)
(*   - the scanner of the engine's streaming output (src/src/vasp.rs):     *)
(*     parse_energy_and_forces.                                            *)
(***************************************************************************)
EXTENDS Integers, Sequences, FiniteSets, TLC

\* ------------------------------------------------------------------ bounds
\* Number of processes that can be spawned in one behaviour of one orchestrator.
MaxProcs == 4
\* Number of processes that can be spawned in one behaviour of two orchestrators.
MaxProcsShared == 2
\* Number of scratch directories that can be created in one behaviour.
MaxDirs == 2
\* Number of engine output lines held in the pipe and in compute_mol's text.
MaxLines == 3
\* Number of interact calls on one Task.
MaxInteract == 2
\* Number of structures in one compute_bunch call, and of result documents
\* in one engine output.
MaxBunch == 2
\* Number of lines of a text given to the result parser.
MaxText == 5
\* Number of lines of a text whose first line is replaced by other lines.
MaxStream == 4
\* Number of lines after the version line in a document with modified headers.
MaxBody == 4
\* Number of atoms in the forces of a Computed value that is written out.
MaxAtoms == 2
\* Number of lines in a text handed to the streaming-output scanner.
MaxScan == 5

\* The orchestrator instances: one (Spec), or the two instances configured
\* with the same scratch root (SharedSpec).  What is stated of two instances
\* is stated of each pair, so two are all that a violation needs.
Orch == {1, 2}
Pids == 1..MaxProcs
DirIds == 1..MaxDirs

\* Option::None of the Option<Task> and Option<TempDir> fields (ids start at 1).
None == 0

VARIABLES
    life,       \* [Orch -> "absent" | "live" | "task_dropped" | "gone"]: where the value is in its lifetime
    int_file,   \* [Orch -> BOOLEAN]: BBM_INT_FILE configured (interactive mode)
    temp_dir,   \* [Orch -> DirIds \cup {None}]: BlackBoxModel.temp_dir
    task,       \* [Orch -> Pids \cup {None}]: BlackBoxModel.task
    ncalls,     \* [Orch -> Nat]: BlackBoxModel.ncalls
    pc,         \* [Orch -> "idle" | "compute" | "compute_bunch" | "panicked"]: the call blocked in
                \* wait_with_output, or a call that panicked
    cur,        \* [Orch -> Pids \cup {None}]: the child the blocked call communicates with
    result,     \* [Orch -> "none" | "ok" | "err" | "panic"]: how the latest call ended
    nmols,      \* [Orch -> 0..MaxBunch]: number of structures given to the latest call
    nres,       \* [Orch -> 0..MaxBunch]: number of results the latest call returned
    kept,       \* [Orch -> BOOLEAN]: keep_scratch_files was called
    reported,   \* [Orch -> DirIds \cup {None}]: the path keep_scratch_files printed
    waited,     \* [Orch -> 0 | 1 | 11]: tenths of a second Task::drop slept
    lost,       \* [Orch -> BOOLEAN]: the persistent engine had exited when the latest call began
    sizes,      \* the bunch sizes and result-document counts this behaviour draws from
    procs,      \* sequence of spawned processes, the pid is the index
    dirs,       \* [DirIds -> directory record]: the scratch directories under the root
    \* Task (task.rs)
    t_pc,       \* where the thread owning the Task is (see TaskPcs)
    t_int,      \* BOOLEAN: Task.int_file is set
    t_child,    \* "running" | "exited": Task.child, the engine process
    t_sig,      \* "none" | "killed" | "killfailed": what child.kill() in drop did
    t_script,   \* "none" | "ok" | "fail" | "hang": the control script run in progress, and how it ends
    t_out,      \* lines the engine wrote to its stdout that stream1 has not yet returned
    t_text,     \* compute_mol's `text`: the lines read so far in this call
    t_calls,    \* number of interact calls made so far
    t_result,   \* "none" | "ok" | "err" | "panic": how the latest interact call ended
    t_log,      \* what the current operation (interact call or drop) did so far, in order
    t_broken,   \* BOOLEAN: an interact call failed because the stream ended before the sentinel
    t_block,    \* the lines taken from stream1 after the previous sentinel line, the latest included
    t_scan,     \* the energy the scanner extracted in this call (<<>> before it did)
    t_energy,   \* the `energy` field of the ModelProperties built in this call
    \* result parser (model_properties.rs)
    p_text,     \* the text to parse, a sequence of lines
    p_all,      \* how Computed::parse_all(p_text) ended (see Outcome)
    p_one,      \* how p_text.parse::<Computed>() ended
    \* wire format round trip (model_properties.rs)
    r_val,      \* a Computed value
    r_text,     \* the lines of format!("{}", r_val), <<>> before it is written
    r_back,     \* how r_text.parse::<Computed>() ended
    \* streaming-output scanner (vasp.rs)
    s_text,     \* the text handed to parse_energy_and_forces, a sequence of lines
    s_out       \* how parse_energy_and_forces(s_text) ended

bbmVars == <<life, int_file, temp_dir, task, ncalls, pc, cur, result, nmols, nres, kept, reported,
             waited, lost, sizes>>
osVars == <<procs, dirs>>
taskVars == <<t_pc, t_int, t_child, t_sig, t_script, t_out, t_text, t_calls, t_result, t_log, t_broken,
             t_block, t_scan, t_energy>>
roundVars == <<r_val, r_text, r_back>>
scanVars == <<s_text, s_out>>
parseVars == <<p_text, p_all, p_one, r_val, r_text, r_back, s_text, s_out>>
vars == <<life, int_file, temp_dir, task, ncalls, pc, cur, result, nmols, nres, kept, reported,
          waited, lost, sizes,
          procs, dirs,
          t_pc, t_int, t_child, t_sig, t_script, t_out, t_text, t_calls, t_result, t_log, t_broken,
          t_block, t_scan, t_energy,
          p_text, p_all, p_one, r_val, r_text, r_back, s_text, s_out>>

\* ------------------------------------------------------------ OS: processes
\* A spawned process. owner: the orchestrator that spawned it; role: "main"
\* (the persistent engine, process_create_normal) or "call" (piped stdin and
\* stdout, process_create); st: "running" or "exited"; wd: its working
\* directory; h: what became of the std::process::Child handle:
\*   "held"       still owned by the orchestrator (or by the running call)
\*   "waited"     released after a wait that reaped it
\*   "waitfailed" released after a wait that returned an error
\*   "signalled"  released after SIGTERM was delivered to it
\*   "sigfailed"  released after a kill(2) that returned an error
\*   "leaked"     released with neither a wait nor a signal
ProcRec(o, role, d) == [owner |-> o, role |-> role, st |-> "running", wd |-> d, h |-> "held"]

\* Command::spawn: the new process gets the next pid.
Spawn(ps, o, role, d) == Append(ps, ProcRec(o, role, d))

Running(p) == procs[p].st = "running"

\* ---------------------------------------------------------- OS: directories
\* exists: the directory is on disk; creator: the orchestrator whose
\* new_scratch_directory call made it (None: never made); run: the run script
\* was copied into it.
NoDir == [exists |-> FALSE, creator |-> None, run |-> FALSE]

\* tempdir_in(root): a directory that did not exist before, uniquely named.
new_scratch_directory_shared(ds) == 1
new_scratch_directory(ds) == CHOOSE d \in DirIds : ds[d].creator = None /\ \A e \in DirIds : e < d => ds[e].creator # None

CanCreateDir(ds) == \E d \in DirIds : ds[d].creator = None

\* --------------------------------------------------- BlackBoxModel: compute
\* The first stage of a call that returns an error, or "none":
\*   "render"  render_input / render_input_bunch (a NaN position, the template)
\*   "mkdir"   new_scratch_directory
\*   "copy"    read_file or write_script_file of the run script
\*   "canon"   dest.canonicalize()
\*   "ctx"     tpl_file.parent() or current_dir()
\*   "main"    process_create_normal (the persistent engine)
\*   "spawn"   process_create (the per-call child)
\*   "write"   stdin.write_all
\* The stages "mkdir", "copy" and "canon" are passed only when the directory
\* has to be created, "main" only when the persistent engine has to be spawned.
Stages == {"none", "render", "mkdir", "copy", "canon", "ctx", "main", "spawn", "write"}

DirMade(o) == [exists |-> TRUE, creator |-> o, run |-> TRUE]

\* prepare_compute_env: reuse self.temp_dir, or create it and copy the run
\* script.  tdir is self.temp_dir afterwards (the parent of the run file that
\* is returned when ok), ds the directories on disk afterwards.  A TempDir
\* that is still a local when `?` returns is dropped, which removes it.
prepare_compute_env_always_new(o, fail) == LET d == new_scratch_directory(dirs) IN [ok |-> TRUE, tdir |-> d, ds |-> [dirs EXCEPT ![d] = DirMade(o)]]
prepare_compute_env_saved_before_copy(o, fail) ==
    IF temp_dir[o] # None
    THEN [ok |-> TRUE, tdir |-> temp_dir[o], ds |-> dirs]
    ELSE IF fail = "mkdir"
    THEN [ok |-> FALSE, tdir |-> None, ds |-> dirs]
    ELSE LET d == new_scratch_directory(dirs) IN
         IF fail = "copy"
         THEN [ok |-> FALSE, tdir |-> d,
               ds |-> [dirs EXCEPT ![d] = [exists |-> TRUE, creator |-> o, run |-> FALSE]]]
         ELSE [ok |-> fail # "canon", tdir |-> d, ds |-> [dirs EXCEPT ![d] = DirMade(o)]]
prepare_compute_env(o, fail) ==
    IF temp_dir[o] # None
    THEN [ok |-> TRUE, tdir |-> temp_dir[o], ds |-> dirs]
    ELSE IF fail = "mkdir"
    THEN [ok |-> FALSE, tdir |-> None, ds |-> dirs]
    ELSE LET d == new_scratch_directory(dirs) IN
         CASE fail = "copy" ->
                [ok |-> FALSE, tdir |-> None,
                 ds |-> [dirs EXCEPT ![d] = [exists |-> FALSE, creator |-> o, run |-> FALSE]]]
           [] fail = "canon" ->
                [ok |-> FALSE, tdir |-> d, ds |-> [dirs EXCEPT ![d] = DirMade(o)]]
           [] OTHER ->
                [ok |-> TRUE, tdir |-> d, ds |-> [dirs EXCEPT ![d] = DirMade(o)]]

\* `if self.task.is_none()`: the persistent engine is spawned only then.
TaskIsNone_always(o) == TRUE
TaskIsNone_or_exited(o) == IF task[o] = None THEN TRUE ELSE ~Running(task[o])
TaskIsNone(o) == task[o] = None

\* process_communicate, the write to the child's stdin returned an error: `?`
\* returns and the Child, moved into the function, is dropped.
\* std::process::Child has no Drop: the process is neither waited for nor
\* signalled.
stdin_write_failed_respawn(ps, c) == Spawn([ps EXCEPT ![c].h = "leaked"], ps[c].owner, "call", ps[c].wd)
stdin_write_failed(ps, c) == [ps EXCEPT ![c].h = "leaked"]

\* child.wait_with_output() returned: Ok after the child has exited and was
\* reaped, or Err.
wait_with_output(ps, c, waitOk) == [ps EXCEPT ![c].h = IF waitOk THEN "waited" ELSE "waitfailed"]

\* submit_cmd up to the point where it blocks in wait_with_output.
\* ret is "err" (an Err was returned) or "blocked" (waiting for the child).
submit_cmd(o, fail) ==
    LET e == prepare_compute_env(o, fail)
        base == [ret |-> "err", tdir |-> e.tdir, ds |-> e.ds, tk |-> task[o], ps |-> procs, cur |-> None]
        needMain == int_file[o] /\ TaskIsNone(o)
        ps1 == IF needMain THEN Spawn(procs, o, "main", e.tdir) ELSE procs
        b1 == [base EXCEPT !.ps = ps1, !.tk = IF needMain THEN Len(ps1) ELSE task[o]]
        ps2 == Spawn(ps1, o, "call", e.tdir)
    IN  IF ~e.ok \/ fail = "ctx" THEN base
        ELSE IF needMain /\ fail = "main" THEN base
        ELSE IF fail = "spawn" THEN b1
        ELSE IF fail = "write" THEN [b1 EXCEPT !.ps = stdin_write_failed(ps2, Len(ps2))]
        ELSE [b1 EXCEPT !.ret = "blocked", !.ps = ps2, !.cur = Len(ps2)]

\* The pids a call may need are available (the bound of the model).
ProcBudget == IF (\A o \in Orch : life[o] # "absent") \/ sizes # {1} THEN MaxProcsShared ELSE MaxProcs
HavePids(o) == Len(procs) + (IF int_file[o] /\ TaskIsNone(o) THEN 2 ELSE 1) <= ProcBudget

\* `self.ncalls += 1` in compute_normal
ncalls_incr_twice(n) == n + 2
ncalls_incr(n) == n + 1

\* `self.ncalls += 1` in compute_normal_bunch, called with k structures
ncalls_incr_per_item(n, k) == n + k
ncalls_incr_bunch(n, k) == n + 1

\* compute_bunch: debug_assert_eq!(mols.len(), all.len()), which is compiled
\* only into a build with debug assertions.
one_to_one_mapping(k, n, debug) == IF debug /\ k # n THEN "panic" ELSE "ok"

\* The structure handed to compute, and mol.natoms().
InputMol == <<"H">>
natoms(mol) == Len(mol)

\* The structures a parsed result can hold (get_molecule()): none, or one of
\* some number of atoms.
ParsedMols == {<<>>} \cup {<<[i \in 1..m |-> "H"]>> : m \in sizes}

\* compute: debug_assert!(pmol.natoms() == mol.natoms()) for a result that
\* holds a structure, compiled only into a build with debug assertions.
same_natoms(mol, pmol, debug) ==
    IF debug /\ pmol # <<>> /\ natoms(pmol[1]) # natoms(mol) THEN "panic" ELSE "ok"

\* compute_normal with the scratch directory prepared before the input is
\* rendered.
Call_prepared_before_render(o, kind, fail) ==
    LET r == submit_cmd(o, IF fail = "render" THEN "ctx" ELSE fail) IN
    /\ temp_dir' = [temp_dir EXCEPT ![o] = r.tdir]
    /\ dirs' = r.ds
    /\ task' = [task EXCEPT ![o] = r.tk]
    /\ procs' = r.ps
    /\ cur' = [cur EXCEPT ![o] = r.cur]
    /\ pc' = [pc EXCEPT ![o] = IF r.ret = "blocked" THEN kind ELSE "idle"]
    /\ result' = [result EXCEPT ![o] = IF r.ret = "blocked" THEN "none" ELSE "err"]

\* compute_normal / compute_normal_bunch up to the blocking wait: render the
\* input, then submit_cmd.  A failed render returns before anything else is
\* touched.
Call(o, kind, fail) ==
    IF fail = "render"
    THEN /\ result' = [result EXCEPT ![o] = "err"]
         /\ UNCHANGED <<temp_dir, task, pc, cur, procs, dirs>>
    ELSE LET r == submit_cmd(o, fail) IN
         /\ temp_dir' = [temp_dir EXCEPT ![o] = r.tdir]
         /\ dirs' = r.ds
         /\ task' = [task EXCEPT ![o] = r.tk]
         /\ procs' = r.ps
         /\ cur' = [cur EXCEPT ![o] = r.cur]
         /\ pc' = [pc EXCEPT ![o] = IF r.ret = "blocked" THEN kind ELSE "idle"]
         /\ result' = [result EXCEPT ![o] = IF r.ret = "blocked" THEN "none" ELSE "err"]

\* The stages that can fail in this call.
Applicable(o, fail) ==
    /\ fail \in {"mkdir", "copy", "canon"} => temp_dir[o] = None
    /\ fail = "main" => (int_file[o] /\ TaskIsNone(o))
    /\ (temp_dir[o] = None /\ fail \notin {"render", "mkdir"}) => CanCreateDir(dirs)

EngineLost(o) == task[o] # None /\ ~Running(task[o])

CallInputs(o, kind, k) ==
    /\ \E fail \in Stages :
          /\ Applicable(o, fail)
          /\ fail = "render" => k # 0
          /\ Call(o, kind, fail)
    /\ lost' = [lost EXCEPT ![o] = EngineLost(o)]
    /\ nmols' = [nmols EXCEPT ![o] = k]
    /\ nres' = [nres EXCEPT ![o] = 0]

\* ChemicalModel::compute, from the call to the blocking wait (or to an early Err).
Compute(o) ==
    /\ life[o] = "live" /\ pc[o] = "idle"
    /\ HavePids(o)
    /\ CallInputs(o, "compute", 1)
    /\ UNCHANGED <<life, int_file, ncalls, kept, reported, waited, sizes, taskVars, parseVars>>

\* ChemicalModel::compute_bunch, from the call to the blocking wait (or to an early Err).
ComputeBunch(o) ==
    /\ life[o] = "live" /\ pc[o] = "idle"
    /\ HavePids(o)
    /\ \E k \in sizes : CallInputs(o, "compute_bunch", k)
    /\ UNCHANGED <<life, int_file, ncalls, kept, reported, waited, sizes, taskVars, parseVars>>

\* How the rest of a call ends once wait_with_output has returned: the
\* output is parsed (parse() for compute, which is the last of the result
\* documents; parse_all for compute_bunch, which is all n of them), on success
\* self.ncalls is incremented; compute then checks the atom count of the
\* parsed structure pmol, and compute_bunch the one-to-one mapping.
Collected(o, waitOk, parseOk, n, pmol, debug) ==
    IF ~(waitOk /\ parseOk) \/ (pc[o] = "compute" /\ n = 0)
    THEN [result |-> "err", ncalls |-> ncalls[o], nres |-> 0]
    ELSE IF pc[o] = "compute"
    THEN LET r == same_natoms(InputMol, pmol, debug) IN
         [result |-> r, ncalls |-> ncalls_incr(ncalls[o]), nres |-> IF r = "ok" THEN 1 ELSE 0]
    ELSE LET r == one_to_one_mapping(nmols[o], n, debug) IN
         [result |-> r, ncalls |-> ncalls_incr_bunch(ncalls[o], nmols[o]),
          nres |-> IF r = "ok" THEN n ELSE 0]

\* The rest of the call, from the return of wait_with_output.
Collect(o) ==
    /\ pc[o] \in {"compute", "compute_bunch"}
    /\ \E waitOk \in BOOLEAN, parseOk \in BOOLEAN, n \in sizes :
        /\ waitOk => ~Running(cur[o])
        /\ procs' = wait_with_output(procs, cur[o], waitOk)
        /\ \E debug \in IF waitOk /\ parseOk THEN BOOLEAN ELSE {FALSE},
              pmol \in IF pc[o] = "compute" /\ waitOk /\ parseOk /\ n # 0 THEN ParsedMols ELSE {<<>>} :
            LET r == Collected(o, waitOk, parseOk, n, pmol, debug) IN
            /\ ncalls' = [ncalls EXCEPT ![o] = r.ncalls]
            /\ result' = [result EXCEPT ![o] = r.result]
            /\ nres' = [nres EXCEPT ![o] = r.nres]
            /\ pc' = [pc EXCEPT ![o] = IF r.result = "panic" THEN "panicked" ELSE "idle"]
    /\ cur' = [cur EXCEPT ![o] = None]
    /\ UNCHANGED <<life, int_file, temp_dir, task, nmols, kept, reported, waited, lost, sizes, dirs,
                   taskVars, parseVars>>

\* A running process exits (it finished, crashed, or acted on a signal).
ChildExit(p) ==
    /\ p \in 1..Len(procs)
    /\ Running(p)
    /\ procs' = [procs EXCEPT ![p].st = "exited"]
    /\ UNCHANGED <<bbmVars, dirs, taskVars, parseVars>>

\* -------------------------------------------------- BlackBoxModel: teardown
\* What the child does while Task::drop sleeps: it exits during the first
\* sleep (0.1 s), during the second (1 s), or is still running afterwards.
Reactions == {"first_sleep", "second_sleep", "still_running"}

\* send_signal_term: kill(pid, SIGTERM) succeeded or returned an error (which
\* is logged).
send_signal_term_skipped(killOk) == "leaked"
send_signal_term(killOk) == IF killOk THEN "signalled" ELSE "sigfailed"

\* Task::drop without the first try_wait: the signal is sent whatever the
\* state of the child.
TaskDrop_without_try_wait(ps, p, killOk, react) ==
    [ps EXCEPT ![p].h = send_signal_term(killOk),
               ![p].st = IF react = "still_running" THEN ps[p].st ELSE "exited"]

\* impl Drop for Task (blackbox.rs): try_wait; if the child has not exited,
\* SIGTERM, sleep 0.1 s, try_wait, and if it is still running sleep 1 s.
TaskDrop(ps, p, killOk, react) ==
    IF ps[p].st = "exited"
    THEN [ps EXCEPT ![p].h = "waited"]
    ELSE [ps EXCEPT ![p].h = send_signal_term(killOk),
                    ![p].st = IF react = "still_running" THEN "running" ELSE "exited"]

\* Tenths of a second Task::drop slept.
TaskDropSlept(ps, p, react) ==
    IF ps[p].st = "exited" THEN 0 ELSE IF react = "first_sleep" THEN 1 ELSE 11

\* `if let Err(e) = send_signal_term(child.id()) { error!(..) }`: the error
\* of a signal that could not be sent is logged, and drop goes on; the
\* control state `at` of the owner is what it was.
kill_child_process_failure_unwrapped(at, failed) == IF failed THEN "panicked" ELSE at
kill_child_process_failure(at, failed) == at

\* Dropping the `task: Option<Task>` field.
DropTaskField(o) ==
    \E killOk \in IF task[o] # None /\ Running(task[o]) THEN BOOLEAN ELSE {TRUE},
       react \in IF task[o] # None /\ Running(task[o]) THEN Reactions ELSE {"first_sleep"} :
        /\ procs' = IF task[o] = None THEN procs ELSE TaskDrop(procs, task[o], killOk, react)
        /\ pc' = [pc EXCEPT ![o] = kill_child_process_failure(pc[o],
                      task[o] # None /\ procs[task[o]].st # "exited" /\ ~killOk)]
        /\ waited' = [waited EXCEPT ![o] = IF task[o] = None THEN 0 ELSE TaskDropSlept(procs, task[o], react)]
        /\ task' = [task EXCEPT ![o] = None]

\* The orchestrator goes out of scope, between calls or while a panic
\* unwinds.  Fields are dropped in declaration order: `task` (Task::drop)
\* before `temp_dir`.
DropTask(o) ==
    /\ life[o] = "live" /\ pc[o] \in {"idle", "panicked"}
    /\ DropTaskField(o)
    /\ life' = [life EXCEPT ![o] = "task_dropped"]
    /\ UNCHANGED <<int_file, temp_dir, ncalls, cur, result, nmols, nres, kept, reported, lost, sizes,
                   dirs, taskVars, parseVars>>

\* TempDir::drop: the directory and its contents are removed.
TempDirDrop_noop(ds, d) == ds
TempDirDrop(ds, d) == [ds EXCEPT ![d].exists = FALSE]

\* Dropping the `temp_dir: Option<TempDir>` field, after `task`.
DropTempDir_before_task(o) ==
    /\ life[o] \in {"live", "task_dropped"} /\ pc[o] \in {"idle", "panicked"}
    /\ dirs' = IF temp_dir[o] = None THEN dirs ELSE TempDirDrop(dirs, temp_dir[o])
    /\ temp_dir' = [temp_dir EXCEPT ![o] = None]
    /\ life' = [life EXCEPT ![o] = "gone"]
    /\ UNCHANGED <<int_file, task, ncalls, pc, cur, result, nmols, nres, kept, reported, waited, lost,
                   sizes, procs, taskVars, parseVars>>
DropTempDir(o) ==
    /\ life[o] = "task_dropped"
    /\ dirs' = IF temp_dir[o] = None THEN dirs ELSE TempDirDrop(dirs, temp_dir[o])
    /\ temp_dir' = [temp_dir EXCEPT ![o] = None]
    /\ life' = [life EXCEPT ![o] = "gone"]
    /\ UNCHANGED <<int_file, task, ncalls, pc, cur, result, nmols, nres, kept, reported, waited, lost,
                   sizes, procs, taskVars, parseVars>>

\* keep_scratch_files(self): TempDir::into_path disarms the removal and the
\* path is printed; the rest of self (the task) is dropped at the end of the
\* function.
KeepScratchFiles(o) ==
    /\ life[o] = "live" /\ pc[o] = "idle"
    /\ kept' = [kept EXCEPT ![o] = TRUE]
    /\ reported' = [reported EXCEPT ![o] = temp_dir[o]]
    /\ temp_dir' = [temp_dir EXCEPT ![o] = None]
    /\ DropTaskField(o)
    /\ life' = [life EXCEPT ![o] = "gone"]
    /\ UNCHANGED <<int_file, ncalls, cur, result, nmols, nres, lost, sizes, dirs, taskVars, parseVars>>

\* ------------------------------------------------------------ Task (task.rs)
\* Where the thread that owns the Task is:
\*   "none"         no Task was made
\*   "idle"         between calls
\*   "resume"       interact: blocked in interactive_resume
\*   "read"         interact: in compute_mol, reading stream1
\*   "pause"        interact: blocked in interactive_suspend
\*   "panicked"     interact panicked; the thread unwinds (or the program aborts)
\*   "drop_resume"  drop: blocked in interactive_resume
\*   "dropped"      drop has returned
TaskPcs == {"none", "idle", "resume", "read", "pause", "panicked", "drop_resume", "dropped"}

\* An engine output line: the line that announces that positions are read
\* from stdin ("POSITIONS: reading from stdin"), any other line, or bytes
\* that are not valid UTF-8 (for which the line iterator yields an error).
Lines == {"sentinel", "line", "garbled"}

\* How a run of the control script ends: exit status 0, a non-zero status (or
\* the script cannot be run), or never.
ScriptEnds == {"ok", "fail", "hang"}

\* What an operation does, as recorded in t_log:
\*   "resume", "pause"   the control script is invoked with that action
\*   "positions"         the position lines were written to stream0 and flushed
\*   "sentinel"          the sentinel line was read from stream1
\*   "decoded"           the text before the sentinel was scanned into a result
\*   "kill"              child.kill() was called
\* and how a step ended: "resume_ok", "resume_err", "pause_ok", "pause_err",
\* "positions_err", "eof", "read_err", "scan_panic" (the scanner panicked),
\* "energy_panic" (set_energy panicked).
Events == {"resume", "pause", "positions", "sentinel", "decoded", "kill",
           "resume_ok", "resume_err", "pause_ok", "pause_err",
           "positions_err", "eof", "read_err", "scan_panic", "energy_panic"}

Log(evs) == t_log' = t_log \o evs

\* A panic (an `expect` or an `assert!` that fails) leaves the call without a
\* return value.
Panic ==
    /\ t_pc' = "panicked"
    /\ t_result' = "panic"
    /\ t_script' = "none"

\* The call returns to the caller.
Return(r) ==
    /\ t_pc' = "idle"
    /\ t_result' = r
    /\ t_script' = "none"

\* input_positions: one line per atom is written to stream0 and flushed (the
\* write fails when the engine has exited and closed the pipe); then
\* compute_mol starts with an empty text.
InputPositionsThenRead(writeOk, before) ==
    IF writeOk /\ t_child = "running"
    THEN /\ t_pc' = "read" /\ t_script' = "none" /\ t_text' = <<>>
         /\ Log(before \o <<"positions">>)
         /\ UNCHANGED t_result
    ELSE Return("err") /\ Log(before \o <<"positions_err">>) /\ UNCHANGED t_text

\* The `n` the caller passes to interact: the number of calls made before.
CallerN == t_calls

\* `if n != 0`: it is not necessary to resume when just started.
NotJustStarted_always(n) == TRUE
NotJustStarted(n) == n # 0

\* Task::interact, up to its first blocking point.
T_Interact ==
    /\ t_pc = "idle" /\ t_calls < MaxInteract
    /\ t_calls' = t_calls + 1
    /\ IF NotJustStarted(CallerN) /\ t_int
       THEN /\ \E e \in ScriptEnds : t_script' = e
            /\ t_pc' = "resume"
            /\ t_log' = <<"resume">>
            /\ UNCHANGED <<t_text, t_result>>
       ELSE IF NotJustStarted(CallerN)
       THEN \E writeOk \in BOOLEAN :
               IF writeOk /\ t_child = "running"
               THEN /\ t_pc' = "read" /\ t_text' = <<>> /\ t_log' = <<"positions">>
                    /\ UNCHANGED <<t_script, t_result>>
               ELSE Return("err") /\ t_log' = <<"positions_err">> /\ UNCHANGED t_text
       ELSE t_pc' = "read" /\ t_text' = <<>> /\ t_log' = <<>> /\ UNCHANGED <<t_script, t_result>>
    /\ t_scan' = <<>> /\ t_energy' = <<>>
    /\ UNCHANGED <<t_int, t_child, t_sig, t_out, t_broken, t_block, bbmVars, osVars, parseVars>>

\* interact: interactive_resume returns; on Ok the positions are written.
T_ResumeReturns ==
    /\ t_pc = "resume" /\ t_script \in {"ok", "fail"}
    /\ IF t_script = "fail"
       THEN Return("err") /\ Log(<<"resume_err">>) /\ UNCHANGED t_text
       ELSE \E writeOk \in BOOLEAN : InputPositionsThenRead(writeOk, <<"resume_ok">>)
    /\ UNCHANGED <<t_int, t_child, t_sig, t_out, t_calls, t_broken, t_block, t_scan, t_energy,
                   bbmVars, osVars, parseVars>>

\* bail!("no model properties found!"): the stream ended before a sentinel.
no_model_properties_found_default == "ok"
no_model_properties_found == "err"

\* The energies the scanner extracts: a negative and a positive one.
ScannedEnergies == {-1, 1}

\* stream1.next() took line l: what was taken after the previous sentinel
\* line, l included.
Taken(l) ==
    IF t_block # <<>> /\ t_block[Len(t_block)] = "sentinel" THEN <<l>> ELSE Append(t_block, l)

\* ModelProperties::set_energy: assert!(e.is_sign_positive()), then the
\* energy is stored.
set_energy(e) ==
    IF e >= 0 THEN [st |-> "ok", energy |-> <<e>>] ELSE [st |-> "panic", energy |-> <<>>]

\* compute_mol: one turn of `while let Some(line) = self.stream1.next()`.
\* At the sentinel the text is scanned (parse_energy_and_forces, which
\* panics on a text it cannot scan) and the energy stored (set_energy, which
\* asserts its sign); then interact pauses the engine when a control script
\* is set.  At the end of the stream the call fails.
T_ReadLine ==
    /\ t_pc = "read"
    /\ \/ /\ t_out # <<>> /\ Head(t_out) = "line"
          /\ t_text' = Append(t_text, "line")
          /\ t_out' = Tail(t_out)
          /\ t_block' = Taken("line")
          /\ UNCHANGED <<t_pc, t_script, t_result, t_log, t_broken, t_scan, t_energy>>
       \/ /\ t_out # <<>> /\ Head(t_out) = "sentinel"
          /\ t_out' = Tail(t_out)
          /\ t_block' = Taken("sentinel")
          /\ \E scanned \in BOOLEAN :
                IF ~scanned
                THEN /\ Panic /\ Log(<<"sentinel", "scan_panic">>)
                     /\ UNCHANGED <<t_broken, t_scan, t_energy>>
                ELSE \E e \in ScannedEnergies :
                     LET mp == set_energy(e) IN
                     /\ t_scan' = <<e>>
                     /\ t_energy' = mp.energy
                     /\ IF mp.st = "panic"
                        THEN Panic /\ Log(<<"sentinel", "energy_panic">>) /\ UNCHANGED t_broken
                        ELSE IF t_int
                        THEN /\ \E end \in ScriptEnds : t_script' = end
                             /\ t_pc' = "pause"
                             /\ Log(<<"sentinel", "decoded", "pause">>)
                             /\ UNCHANGED <<t_result, t_broken>>
                        ELSE Return("ok") /\ Log(<<"sentinel", "decoded">>) /\ UNCHANGED t_broken
          /\ UNCHANGED t_text
       \/ /\ t_out # <<>> /\ Head(t_out) = "garbled"
          /\ t_out' = Tail(t_out)
          /\ t_block' = Taken("garbled")
          /\ Return("err") /\ Log(<<"read_err">>)
          /\ UNCHANGED <<t_text, t_broken, t_scan, t_energy>>
       \/ /\ t_out = <<>> /\ t_child = "exited"
          /\ Return(no_model_properties_found) /\ Log(<<"eof">>) /\ t_broken' = TRUE
          /\ UNCHANGED <<t_out, t_text, t_block, t_scan, t_energy>>
    /\ UNCHANGED <<t_int, t_child, t_sig, t_calls, bbmVars, osVars, parseVars>>

\* interact: interactive_suspend returns.
T_PauseReturns ==
    /\ t_pc = "pause" /\ t_script \in {"ok", "fail"}
    /\ Return(IF t_script = "ok" THEN "ok" ELSE "err")
    /\ Log(<<IF t_script = "ok" THEN "pause_ok" ELSE "pause_err">>)
    /\ UNCHANGED <<t_int, t_child, t_sig, t_out, t_text, t_calls, t_broken, t_block, t_scan, t_energy,
                   bbmVars, osVars, parseVars>>

\* The engine writes a line to its stdout.
T_EngineEmit ==
    /\ t_pc \notin {"none", "dropped"} /\ t_child = "running"
    /\ Len(t_out) + Len(t_text) < MaxLines
    /\ \E l \in Lines : t_out' = Append(t_out, l)
    /\ UNCHANGED <<t_pc, t_int, t_child, t_sig, t_script, t_text, t_calls, t_result, t_log, t_broken,
                   t_block, t_scan, t_energy, bbmVars, osVars, parseVars>>

\* The engine exits; its end of the pipes is closed.
T_EngineExit ==
    /\ t_pc \notin {"none", "dropped"} /\ t_child = "running"
    /\ t_child' = "exited"
    /\ UNCHANGED <<t_pc, t_int, t_sig, t_script, t_out, t_text, t_calls, t_result, t_log, t_broken,
                   t_block, t_scan, t_energy, bbmVars, osVars, parseVars>>

\* impl Drop for Task, after the resume: child.kill() (SIGKILL, an error is
\* printed), sleep 2 s, try_wait.
KillAndWait ==
    /\ \E killOk \in BOOLEAN :
          IF t_child = "running" /\ killOk
          THEN t_child' = "exited" /\ t_sig' = "killed"
          ELSE t_sig' = (IF killOk THEN "killed" ELSE "killfailed") /\ UNCHANGED t_child
    /\ t_pc' = "dropped"
    /\ t_script' = "none"

\* impl Drop for Task: with a control script, interactive_resume first.  The
\* Task is dropped by its owner between calls, or while a panic unwinds.
T_Drop ==
    /\ t_pc \in {"idle", "panicked"}
    /\ IF t_int
       THEN /\ \E e \in ScriptEnds : t_script' = e
            /\ t_pc' = "drop_resume"
            /\ t_log' = <<"resume">>
            /\ UNCHANGED <<t_child, t_sig>>
       ELSE KillAndWait /\ t_log' = <<"kill">>
    /\ UNCHANGED <<t_int, t_out, t_text, t_calls, t_result, t_broken, t_block, t_scan, t_energy,
                   bbmVars, osVars, parseVars>>

\* drop: interactive_resume returns, Ok or Err (which is logged).
T_DropResumeReturns_unless_failed ==
    /\ t_pc = "drop_resume" /\ t_script \in {"ok", "fail"}
    /\ IF t_script = "ok" THEN KillAndWait /\ Log(<<"resume_ok", "kill">>)
       ELSE /\ t_pc' = "dropped" /\ t_script' = "none" /\ Log(<<"resume_err">>)
            /\ UNCHANGED <<t_child, t_sig>>
    /\ UNCHANGED <<t_int, t_out, t_text, t_calls, t_result, t_broken, t_block, t_scan, t_energy,
                   bbmVars, osVars, parseVars>>
T_DropResumeReturns ==
    /\ t_pc = "drop_resume" /\ t_script \in {"ok", "fail"}
    /\ KillAndWait
    /\ Log(<<IF t_script = "ok" THEN "resume_ok" ELSE "resume_err", "kill">>)
    /\ UNCHANGED <<t_int, t_out, t_text, t_calls, t_result, t_broken, t_block, t_scan, t_energy,
                   bbmVars, osVars, parseVars>>

\* ------------------------------------- result parser (model_properties.rs)
\* The lines a text is made of.
Comment == "# comment"
Blank == ""
VersionMarker == "@model_properties_format_version 0.1"
SectionHeaders == {"@energy", "@forces", "@dipole"}
DataLines == {"1", "1 1 1"}
TextLines == {Comment, Blank, VersionMarker} \cup SectionHeaders \cup DataLines

\* Section headers with modifiers, a structure section and a section of
\* another name; an atom line of the text/pxyz format and a line of numbers.
ModifiedHeaders ==
    {"@energy unit_factor=-1", "@energy test=2", "@forces unit_factor=2 test=2",
     "@dipole unit_factor=-1", "@structure unit_factor=2", "@other", "@other unit_factor=x"}
AtomLines == {"H 1 2 1"}
NumberLines == {"1", "1 2 1"}
HeaderTextLines == {"@energy"} \cup ModifiedHeaders \cup AtomLines \cup NumberLines

\* The numbers that impl fmt::Display for Computed writes.
\* An f64 as far as its text can show it: `shown` is the number rounded to 13
\* significant decimal digits, `more` tells that the number has further
\* digits, which `{:-20.12E}` rounds away.
Floats == {[shown |-> d, more |-> FALSE] : d \in {0, 1, 0 - 1}} \cup {[shown |-> 1, more |-> TRUE]}

\* format!("{:-20.12E}", x): one digit, 12 decimals and the exponent, right
\* aligned in 20 columns.
UpperExp12(d) ==
    CASE d = 0 -> "0.000000000000E0"
      [] d = 1 -> "1.000000000000E0"
      [] OTHER -> "-1.000000000000E0"
Width20(w) == (IF Len(w) = 16 THEN "    " ELSE "   ") \o w
format_12E(x) == Width20(UpperExp12(x.shown))

\* format!("{:-20.12E} {:-20.12E} {:-20.12E}\n", fx, fy, fz), without the "\n".
format_xyz(t) == format_12E(t[1]) \o " " \o format_12E(t[2]) \o " " \o format_12E(t[3])

\* The formatted numbers, and the lines they make, before and after trim().
FormattedWords == {UpperExp12(d) : d \in {0, 1, 0 - 1}}
FormattedTriples == FormattedWords \X FormattedWords \X FormattedWords
padded_xyz(t) == Width20(t[1]) \o " " \o Width20(t[2]) \o " " \o Width20(t[3])
trimmed_xyz(t) == t[1] \o " " \o Width20(t[2]) \o " " \o Width20(t[3])

\* line.trim(): the formatted lines lose their leading blanks.
TrimTable ==
    [l \in {Width20(w) : w \in FormattedWords} \cup {padded_xyz(t) : t \in FormattedTriples} |->
        IF \E w \in FormattedWords : l = Width20(w)
        THEN CHOOSE w \in FormattedWords : l = Width20(w)
        ELSE trimmed_xyz(CHOOSE t \in FormattedTriples : l = padded_xyz(t))]
trim(l) == IF l \in DOMAIN TrimTable THEN TrimTable[l] ELSE l

\* s[1..].split_whitespace() of a header line.
HeaderParts(h) ==
    CASE h = "@energy" -> <<"energy">>
      [] h = "@forces" -> <<"forces">>
      [] h = "@dipole" -> <<"dipole">>
      [] h = "@structure" -> <<"structure">>
      [] h = "@other" -> <<"other">>
      [] h = "@energy unit_factor=-1" -> <<"energy", "unit_factor=-1">>
      [] h = "@energy test=2" -> <<"energy", "test=2">>
      [] h = "@forces unit_factor=2 test=2" -> <<"forces", "unit_factor=2", "test=2">>
      [] h = "@dipole unit_factor=-1" -> <<"dipole", "unit_factor=-1">>
      [] h = "@structure unit_factor=2" -> <<"structure", "unit_factor=2">>
      [] h = "@other unit_factor=x" -> <<"other", "unit_factor=x">>
      [] OTHER -> <<"model_properties_format_version", "0.1">>

\* p.split_once('='): None is <<>>, Some((k, v)) is <<k, v>>.
split_once(p) ==
    CASE p = "unit_factor=-1" -> <<"unit_factor", "-1">>
      [] p = "unit_factor=2" -> <<"unit_factor", "2">>
      [] p = "unit_factor=x" -> <<"unit_factor", "x">>
      [] p = "test=2" -> <<"test", "2">>
      [] OTHER -> <<>>

\* line.split_whitespace(), and str::parse::<f64> of a word.
WordsTable == [l \in {trimmed_xyz(t) : t \in FormattedTriples} |->
                  CHOOSE t \in FormattedTriples : l = trimmed_xyz(t)]
split_whitespace(l) ==
    CASE l = "1 1 1" -> <<"1", "1", "1">>
      [] l = "1 2 1" -> <<"1", "2", "1">>
      [] l = "H 1 2 1" -> <<"H", "1", "2", "1">>
      [] l \in DOMAIN WordsTable -> WordsTable[l]
      [] OTHER -> <<l>>
IsFloat(w) == w \in {"1", "2", "-1"} \cup FormattedWords
ParseFloat(w) ==
    CASE w = "2" -> 2
      [] w \in {"-1", UpperExp12(0 - 1)} -> 0 - 1
      [] w = UpperExp12(0) -> 0
      [] OTHER -> 1

\* The loop of Header::from_str over parts[1..]: <<f>> is the unit factor
\* after the loop, <<>> the `?` of a unit_factor value that is not a number.
RECURSIVE unit_factor_loop(_, _)
unit_factor_loop(parts, unit_factor) ==
    IF parts = <<>> THEN <<unit_factor>>
    ELSE LET kv == split_once(Head(parts)) IN
         IF kv # <<>> /\ kv[1] = "unit_factor"
         THEN IF IsFloat(kv[2]) THEN unit_factor_loop(Tail(parts), ParseFloat(kv[2])) ELSE <<>>
         ELSE unit_factor_loop(Tail(parts), unit_factor)

\* Header::from_str of a line that starts with "@": the name is the first
\* word after the "@", the unit factor is 1 unless a modifier sets it.
Header(s) ==
    LET parts == HeaderParts(s)
        f == unit_factor_loop(Tail(parts), 1)
    IN  IF f = <<>> THEN [st |-> "err"]
        ELSE [st |-> "ok", name |-> parts[1], unit_factor |-> f[1]]
HeaderName(h) == HeaderParts(h)[1]

\* `.parse::<f64>()? * unit_factor`
times_unit_factor_dropped(v, unit_factor) == v
times_unit_factor(v, unit_factor) == v * unit_factor

\* l.trim().starts_with("@")
StartsWithAt(l) == l = VersionMarker \/ l \in SectionHeaders \/ l \in ModifiedHeaders \/ l = "@structure"

\* Option<T>: None is <<>>, Some(v) is <<v>>.  Computed::default() has no field set.
ComputedDefault == [energy |-> <<>>, forces |-> <<>>, dipole |-> <<>>, molecule |-> <<>>]

\* How a parse ends: "ok" with the list of results, "err" (an Err value is
\* returned), "panic", or "none" (not run).
Outcome(st, res) == [st |-> st, res |-> res]
NotRun == Outcome("none", <<>>)

\* parse_model_results_single, the first loop: the data lines collected under
\* each header line; lines before the first header are dropped, and a header
\* line gets an entry only when a data line follows it.
RECURSIVE CollectRecords(_, _, _)
CollectRecords(part, header, records) ==
    IF part = <<>> THEN records
    ELSE LET line == trim(Head(part)) IN
         IF StartsWithAt(line) THEN CollectRecords(Tail(part), <<line>>, records)
         ELSE IF header = <<>> THEN CollectRecords(Tail(part), header, records)
         ELSE LET k == header[1]
                  old == IF k \in DOMAIN records THEN records[k] ELSE <<>>
              IN  CollectRecords(Tail(part), header,
                     [h \in DOMAIN records \cup {k} |-> IF h = k THEN Append(old, line) ELSE records[h]])

\* Molecule::from_str(&s, "text/pxyz") on the joined lines of a structure
\* section: the atoms of the atom lines, with the coordinates as written.
\* The reader belongs to gchemol; what it makes of a line that is not an atom
\* line is not fixed here: an error, or the molecule of the atom lines.
Atom(l) == LET w == split_whitespace(l) IN <<w[1], ParseFloat(w[2]), ParseFloat(w[3]), ParseFloat(w[4])>>
MoleculeFromStr(lines) ==
    LET atoms == SelectSeq(lines, LAMBDA l : l \in AtomLines)
        mol == [i \in 1..Len(atoms) |-> Atom(atoms[i])]
    IN  {[st |-> "ok", val |-> mol]} \cup
        (IF Len(atoms) # Len(lines) THEN {[st |-> "err"]} ELSE {})

\* parse_model_results_single, one turn of the second loop: the ways the
\* record of header line k can be handled.  st is "ok" (the field is set to
\* val), "ignored", "err" (`?` or bail!) or "panic" (assert_eq! or an index
\* out of bounds).  The header is parsed before its name is looked at.
ParseRecord(k, lines) ==
    LET header == Header(k)
        words(i) == split_whitespace(lines[i])
        num(w) == times_unit_factor(ParseFloat(w), header.unit_factor)
    IN  IF header.st = "err" THEN {[st |-> "err"]}
        ELSE CASE header.name = "energy" ->
                IF Len(lines) # 1 THEN {[st |-> "panic"]}
                ELSE IF ~IsFloat(lines[1]) THEN {[st |-> "err"]}
                ELSE {[st |-> "ok", val |-> num(lines[1])]}
          [] header.name = "forces" ->
                IF \E i \in 1..Len(lines) : Len(words(i)) # 3 \/ \E j \in 1..Len(words(i)) : ~IsFloat(words(i)[j])
                THEN {[st |-> "err"]}
                ELSE {[st |-> "ok", val |-> [i \in 1..Len(lines) |-> [j \in 1..3 |-> num(words(i)[j])]]]}
          [] header.name = "structure" -> MoleculeFromStr(lines)
          [] header.name = "dipole" ->
                IF Len(lines) # 1 THEN {[st |-> "panic"]}
                ELSE IF ~IsFloat(words(1)[1]) THEN {[st |-> "err"]}
                ELSE IF Len(words(1)) < 2 THEN {[st |-> "panic"]}
                ELSE IF ~IsFloat(words(1)[2]) THEN {[st |-> "err"]}
                ELSE IF Len(words(1)) < 3 THEN {[st |-> "panic"]}
                ELSE IF ~IsFloat(words(1)[3]) THEN {[st |-> "err"]}
                ELSE {[st |-> "ok", val |-> [j \in 1..3 |-> num(words(1)[j])]]}
          [] OTHER -> {[st |-> "ignored"]}

\* parse_model_results_single: the ways it can end.  The records are visited
\* in the iteration order of a HashMap, which is not fixed: when several
\* records fail, any of them can be the one that ends the parse, and when
\* several records set the same field, any of them can be the last to do so.
parse_model_results_single(part) ==
    LET records == CollectRecords(part, <<>>, <<>>)
        r(k) == ParseRecord(k, records[k])
        done(k) == {x \in r(k) : x.st \in {"ok", "ignored"}}
        failed(k) == {x \in r(k) : x.st \in {"err", "panic"}}
        named(name) == {k \in DOMAIN records : Header(k).st = "ok" /\ Header(k).name = name}
        field(name) ==
            IF named(name) = {} THEN {<<>>}
            ELSE UNION {{<<x.val>> : x \in done(k)} : k \in named(name)}
    IN  (IF \A k \in DOMAIN records : done(k) # {}
         THEN {Outcome("ok", <<[energy |-> e, forces |-> f, dipole |-> d, molecule |-> m]>>) :
                 e \in field("energy"), f \in field("forces"), d \in field("dipole"),
                 m \in field("structure")}
         ELSE {})
        \cup UNION {{Outcome(x.st, <<>>) : x \in failed(k)} : k \in DOMAIN records}

\* The filter of parse_model_results: comment lines and blank lines are ignored.
Kept(text) == SelectSeq(text, LAMBDA l : l # Comment /\ l # Blank)

\* stream.trim().is_empty()
TrimIsEmpty(text) == \A i \in 1..Len(text) : text[i] = Blank

\* slice::split at the lines that start with the version marker: one part
\* more than there are such lines, empty parts included.
RECURSIVE split(_)
split(lines) ==
    IF \E i \in 1..Len(lines) : lines[i] = VersionMarker
    THEN LET i == CHOOSE j \in 1..Len(lines) :
                     lines[j] = VersionMarker /\ \A m \in 1..(j - 1) : lines[m] # VersionMarker
         IN  <<SubSeq(lines, 1, i - 1)>> \o split(SubSeq(lines, i + 1, Len(lines)))
    ELSE <<lines>>

\* `if part.is_empty() { continue; }`
part_is_empty_never(part) == FALSE
part_is_empty(part) == part = <<>>

\* The loop of parse_model_results over the parts, results so far in `all`.
RECURSIVE ParseParts(_, _)
ParseParts(parts, all) ==
    IF parts = <<>> THEN {Outcome("ok", all)}
    ELSE IF part_is_empty(Head(parts)) THEN ParseParts(Tail(parts), all)
    ELSE UNION {IF o.st = "ok" THEN ParseParts(Tail(parts), all \o o.res) ELSE {o} :
                  o \in parse_model_results_single(Head(parts))}

\* parse_model_results that looks at the first kept line and returns an
\* error unless it is the version marker.
parse_model_results_marker_required(text) ==
    IF TrimIsEmpty(text) THEN {Outcome("err", <<>>)}
    ELSE IF Kept(text) = <<>> THEN {Outcome("panic", <<>>)}
    ELSE IF Head(Kept(text)) # VersionMarker THEN {Outcome("err", <<>>)}
    ELSE ParseParts(split(Tail(Kept(text))), <<>>)

\* parse_model_results (Computed::parse_all): the ways it can end.
\* `lines[1..]` panics when no line is kept.
parse_model_results(text) ==
    IF TrimIsEmpty(text) THEN {Outcome("err", <<>>)}
    ELSE IF Kept(text) = <<>> THEN {Outcome("panic", <<>>)}
    ELSE ParseParts(split(Tail(Kept(text))), <<>>)

\* impl FromStr for Computed: the last of the results; none is an error.
from_str(text) ==
    {IF o.st # "ok" THEN o
     ELSE IF Len(o.res) = 0 THEN Outcome("err", <<>>)
     ELSE Outcome("ok", <<o.res[Len(o.res)]>>) : o \in parse_model_results(text)}

\* Computed::parse_all(&p_text)
ParseAll ==
    /\ p_all = NotRun
    /\ p_all' \in parse_model_results(p_text)
    /\ UNCHANGED <<p_text, p_one, roundVars, scanVars, bbmVars, osVars, taskVars>>

\* p_text.parse::<Computed>()
ParseOne ==
    /\ p_one = NotRun
    /\ p_one' \in from_str(p_text)
    /\ UNCHANGED <<p_text, p_all, roundVars, scanVars, bbmVars, osVars, taskVars>>

\* ------------------------------- wire format (impl fmt::Display for Computed)
\* mol.format_as("text/pxyz"): one atom line for each atom.
format_as_pxyz(mol) == [i \in 1..Len(mol) |-> CHOOSE l \in AtomLines : Atom(l) = mol[i]]

\* impl Display for Computed: the lines of the text that is written.
Display(r) ==
    <<VersionMarker>>
    \o (IF r.molecule # <<>> THEN <<"@structure">> \o format_as_pxyz(r.molecule[1]) ELSE <<>>)
    \o (IF r.energy # <<>> THEN <<"@energy", format_12E(r.energy[1])>> ELSE <<>>)
    \o (IF r.forces # <<>>
        THEN <<"@forces">> \o [i \in 1..Len(r.forces[1]) |-> format_xyz(r.forces[1][i])]
        ELSE <<>>)
    \o (IF r.dipole # <<>> THEN <<"@dipole", format_xyz(r.dipole[1])>> ELSE <<>>)

\* let txt = format!("{}", r_val);
Serialize ==
    /\ r_text = <<>>
    /\ r_text' = Display(r_val)
    /\ UNCHANGED <<r_val, r_back, p_text, p_all, p_one, scanVars, bbmVars, osVars, taskVars>>

\* txt.parse::<Computed>()
ParseBack ==
    /\ r_text # <<>> /\ r_back = NotRun
    /\ r_back' \in from_str(r_text)
    /\ UNCHANGED <<r_val, r_text, p_text, p_all, p_one, scanVars, bbmVars, osVars, taskVars>>

\* ----------------------------------- streaming-output scanner (vasp.rs)
\* The lines of an engine output block; each ends with a line break.
ForcesTag == "FORCES:"
ForcesTagged == "FORCES: x"
XyzLines == {" 1 2 3", " 4 5 6"}
BareNumbers == "1 2 3"
EnergyLine == " 1 F= 1 E0= 2"
ElectronStep == "RMM: 1"
ScanLines == {ForcesTag, ForcesTagged, BareNumbers, EnergyLine, ElectronStep} \cup XyzLines

\* line.starts_with("FORCES:")
StartsWithForces(l) == l \in {ForcesTag, ForcesTagged}

\* read_xyz on one line: space1, three numbers, the rest of the line.
\* <<>> when the line does not match, <<xyz>> when it does.
read_xyz(l) ==
    CASE l = " 1 2 3" -> << <<1, 2, 3>> >>
      [] l = " 4 5 6" -> << <<4, 5, 6>> >>
      [] OTHER -> <<>>

\* read_energy on one line: "<digits> F= <number> E0= <number> ...", the
\* second number is returned.  <<>> when the line does not match.
read_energy_first_number(l) == IF l = EnergyLine THEN <<1>> ELSE <<>>
read_energy(l) == IF l = EnergyLine THEN <<2>> ELSE <<>>

\* many1(read_xyz) from line i on: the values of the lines that match, up to
\* the first line that does not.
RECURSIVE many_read_xyz(_, _)
many_read_xyz(lines, i) ==
    IF i > Len(lines) \/ read_xyz(lines[i]) = <<>> THEN <<>>
    ELSE read_xyz(lines[i]) \o many_read_xyz(lines, i + 1)

\* read_energy_and_forces: skip to the first "FORCES:" that ends a line, read
\* the force lines (one at least), then the energy from the line that follows
\* them.  <<>> when the parser fails.
read_energy_and_forces(lines) ==
    IF \A i \in 1..Len(lines) : lines[i] # ForcesTag THEN <<>>
    ELSE LET jump == CHOOSE i \in 1..Len(lines) :
                         lines[i] = ForcesTag /\ \A m \in 1..(i - 1) : lines[m] # ForcesTag
             forces == many_read_xyz(lines, jump + 1)
             next == jump + 1 + Len(forces)
         IN  IF forces = <<>> THEN <<>>
             ELSE IF next > Len(lines) \/ read_energy(lines[next]) = <<>> THEN <<>>
             ELSE <<[energy |-> read_energy(lines[next])[1], forces |-> forces]>>

\* parse_energy_and_forces.  log_debug: the debug! line is enabled, so that
\* its argument lines[pos - 1] is evaluated.  Both .expect() calls and the
\* index panic; no path returns Err.
parse_energy_and_forces(lines, log_debug) ==
    IF \A i \in 1..Len(lines) : ~StartsWithForces(lines[i]) THEN Outcome("panic", <<>>)
    ELSE LET pos == CHOOSE i \in 1..Len(lines) :
                        StartsWithForces(lines[i]) /\ \A m \in 1..(i - 1) : ~StartsWithForces(lines[m])
         IN  IF log_debug /\ pos = 1 THEN Outcome("panic", <<>>)
             ELSE IF read_energy_and_forces(lines) = <<>> THEN Outcome("panic", <<>>)
             ELSE Outcome("ok", read_energy_and_forces(lines))

\* parse_energy_and_forces(&s_text)
Scan ==
    /\ s_out = NotRun
    /\ \E log_debug \in BOOLEAN : s_out' = parse_energy_and_forces(s_text, log_debug)
    /\ UNCHANGED <<s_text, p_text, p_all, p_one, roundVars, bbmVars, osVars, taskVars>>

\* ------------------------------------------------------------ specification
\* No text is parsed.
NoRound == r_val = ComputedDefault /\ r_text = <<>> /\ r_back = NotRun
NoScan == s_text = <<>> /\ s_out = NotRun
NoParse == p_text = <<>> /\ p_all = NotRun /\ p_one = NotRun /\ NoRound /\ NoScan

\* No Task.
NoTask ==
    /\ t_pc = "none" /\ t_int = FALSE /\ t_child = "exited" /\ t_sig = "none"
    /\ t_script = "none" /\ t_out = <<>> /\ t_text = <<>> /\ t_calls = 0 /\ t_result = "none"
    /\ t_log = <<>> /\ t_broken = FALSE
    /\ t_block = <<>> /\ t_scan = <<>> /\ t_energy = <<>>

\* from_dotenv: temp_dir: None, task: None, ncalls: 0; int_file is set when
\* BBM_INT_FILE is configured.
InitBut(l, ks) ==
    /\ life = l
    /\ sizes = ks
    /\ int_file \in [Orch -> BOOLEAN]
    /\ \A o \in Orch : l[o] = "absent" => ~int_file[o]
    /\ temp_dir = [o \in Orch |-> None]
    /\ task = [o \in Orch |-> None]
    /\ ncalls = [o \in Orch |-> 0]
    /\ pc = [o \in Orch |-> "idle"]
    /\ cur = [o \in Orch |-> None]
    /\ result = [o \in Orch |-> "none"]
    /\ nmols = [o \in Orch |-> 0]
    /\ nres = [o \in Orch |-> 0]
    /\ kept = [o \in Orch |-> FALSE]
    /\ reported = [o \in Orch |-> None]
    /\ waited = [o \in Orch |-> 0]
    /\ lost = [o \in Orch |-> FALSE]
    /\ procs = <<>>
    /\ dirs = [d \in DirIds |-> NoDir]

Next ==
    \/ \E o \in Orch : Compute(o)
    \/ \E o \in Orch : ComputeBunch(o)
    \/ \E o \in Orch : Collect(o)
    \/ \E p \in Pids : ChildExit(p)
    \/ \E o \in Orch : DropTask(o)
    \/ \E o \in Orch : DropTempDir(o)
    \/ \E o \in Orch : KeepScratchFiles(o)

\* One orchestrator.
Init == InitBut([o \in Orch |-> IF o = 1 THEN "live" ELSE "absent"], {1}) /\ NoTask /\ NoParse
Spec == Init /\ [][Next]_vars

\* Two orchestrators configured with the same scratch root.
SharedInit == InitBut([o \in Orch |-> "live"], {1}) /\ NoTask /\ NoParse
SharedSpec == SharedInit /\ [][Next]_vars

\* One orchestrator, with compute_bunch calls of every size and engine
\* outputs of every number of result documents.
BunchInit == InitBut([o \in Orch |-> IF o = 1 THEN "live" ELSE "absent"], 0..MaxBunch) /\ NoTask /\ NoParse
BunchSpec == BunchInit /\ [][Next]_vars

\* Task::new, and interactive() when a control script is configured: the
\* engine was spawned with piped stdin and stdout and is running.
TaskInit ==
    /\ InitBut([o \in Orch |-> "absent"], {1})
    /\ t_pc = "idle" /\ t_int \in BOOLEAN /\ t_child = "running" /\ t_sig = "none"
    /\ t_script = "none" /\ t_out = <<>> /\ t_text = <<>> /\ t_calls = 0 /\ t_result = "none"
    /\ t_log = <<>> /\ t_broken = FALSE
    /\ t_block = <<>> /\ t_scan = <<>> /\ t_energy = <<>>
    /\ NoParse

TaskNext ==
    \/ T_Interact
    \/ T_ResumeReturns
    \/ T_ReadLine
    \/ T_PauseReturns
    \/ T_EngineEmit
    \/ T_EngineExit
    \/ T_Drop
    \/ T_DropResumeReturns

\* One Task.
TaskSpec == TaskInit /\ [][TaskNext]_vars

\* The texts of at most MaxText lines.
Texts == UNION {[1..n -> TextLines] : n \in 0..MaxText}

ParseInit ==
    /\ InitBut([o \in Orch |-> "absent"], {1}) /\ NoTask
    /\ p_text \in Texts /\ p_all = NotRun /\ p_one = NotRun /\ NoRound /\ NoScan

ParseNext ==
    \/ ParseAll
    \/ ParseOne

\* One text, parsed by parse_all and by parse().
ParseSpec == ParseInit /\ [][ParseNext]_vars

\* The shorter texts, each parsed and compared with the parses of the texts
\* that differ from it in one line.
StreamTexts == UNION {[1..n -> TextLines] : n \in 0..MaxStream}

StreamInit ==
    /\ InitBut([o \in Orch |-> "absent"], {1}) /\ NoTask
    /\ p_text \in StreamTexts /\ p_all = NotRun /\ p_one = NotRun /\ NoRound /\ NoScan

StreamSpec == StreamInit /\ [][ParseNext]_vars

\* The texts of one document whose lines are section headers with and
\* without modifiers, atom lines and lines of numbers.
HeaderTexts == {<<VersionMarker>> \o b : b \in UNION {[1..n -> HeaderTextLines] : n \in 0..MaxBody}}

HeaderInit ==
    /\ InitBut([o \in Orch |-> "absent"], {1}) /\ NoTask
    /\ p_text \in HeaderTexts /\ p_all = NotRun /\ p_one = NotRun /\ NoRound /\ NoScan

\* One document with modified headers, parsed by parse_all and by parse().
HeaderSpec == HeaderInit /\ [][ParseNext]_vars

TeardownInit == BunchInit \/ TaskInit

TeardownNext == Next \/ TaskNext

\* One BlackBoxModel or one Task, used and dropped.
TeardownSpec == TeardownInit /\ [][TeardownNext]_vars

\* The texts handed to the scanner.
ScanTexts == UNION {[1..n -> ScanLines] : n \in 0..MaxScan}

ScanInit ==
    /\ InitBut([o \in Orch |-> "absent"], {1}) /\ NoTask
    /\ p_text = <<>> /\ p_all = NotRun /\ p_one = NotRun /\ NoRound
    /\ s_text \in ScanTexts /\ s_out = NotRun

ScanNext == Scan

\* One text, scanned.
ScanSpec == ScanInit /\ [][ScanNext]_vars

\* The Computed values that are written and parsed back: each of energy,
\* forces, dipole and molecule set or not, forces of 0..MaxAtoms atoms.
Floats1(d) == [shown |-> d, more |-> FALSE]
Rows == {<<Floats1(1), Floats1(0), Floats1(0 - 1)>>, <<Floats1(0 - 1), Floats1(1), Floats1(0)>>,
         <<[shown |-> 1, more |-> TRUE], Floats1(0), Floats1(0 - 1)>>}
Molecules == {<<Atom(l)>> : l \in AtomLines}
Option(S) == {<<>>} \cup {<<x>> : x \in S}
Computeds ==
    [energy : Option(Floats), forces : Option(UNION {[1..n -> Rows] : n \in 0..MaxAtoms}),
     dipole : Option(Rows), molecule : Option(Molecules)]

RoundInit ==
    /\ InitBut([o \in Orch |-> "absent"], {1}) /\ NoTask
    /\ p_text = <<>> /\ p_all = NotRun /\ p_one = NotRun /\ NoScan
    /\ r_val \in Computeds /\ r_text = <<>> /\ r_back = NotRun

RoundNext ==
    \/ Serialize
    \/ ParseBack

\* One Computed value, written and parsed back.
RoundSpec == RoundInit /\ [][RoundNext]_vars

TypeOK ==
    /\ life \in [Orch -> {"absent", "live", "task_dropped", "gone"}]
    /\ int_file \in [Orch -> BOOLEAN]
    /\ temp_dir \in [Orch -> DirIds \cup {None}]
    /\ task \in [Orch -> Pids \cup {None}]
    /\ ncalls \in [Orch -> Nat]
    /\ pc \in [Orch -> {"idle", "compute", "compute_bunch", "panicked"}]
    /\ cur \in [Orch -> Pids \cup {None}]
    /\ result \in [Orch -> {"none", "ok", "err", "panic"}]
    /\ nmols \in [Orch -> 0..MaxBunch]
    /\ nres \in [Orch -> 0..MaxBunch]
    /\ kept \in [Orch -> BOOLEAN]
    /\ reported \in [Orch -> DirIds \cup {None}]
    /\ waited \in [Orch -> {0, 1, 11}]
    /\ lost \in [Orch -> BOOLEAN]
    /\ sizes \in SUBSET (0..MaxBunch)
    /\ Len(procs) <= MaxProcs
    /\ \A p \in 1..Len(procs) :
          /\ procs[p].owner \in Orch
          /\ procs[p].role \in {"main", "call"}
          /\ procs[p].st \in {"running", "exited"}
          /\ procs[p].wd \in DirIds
          /\ procs[p].h \in {"held", "waited", "waitfailed", "signalled", "sigfailed", "leaked"}
    /\ \A d \in DirIds : dirs[d].creator \in Orch \cup {None}
    /\ t_pc \in TaskPcs
    /\ t_int \in BOOLEAN
    /\ t_child \in {"running", "exited"}
    /\ t_sig \in {"none", "killed", "killfailed"}
    /\ t_script \in {"none"} \cup ScriptEnds
    /\ t_out \in Seq(Lines) /\ t_text \in Seq(Lines)
    /\ Len(t_out) + Len(t_text) <= MaxLines
    /\ t_calls \in 0..MaxInteract
    /\ t_log \in Seq(Events)
    /\ t_broken \in BOOLEAN
    /\ t_block \in Seq(Lines)
    /\ t_scan \in Option(ScannedEnergies) /\ t_energy \in Option(ScannedEnergies)
    /\ p_text \in Seq(TextLines \cup HeaderTextLines)
    /\ (Len(p_text) <= MaxText \/ Len(p_text) <= MaxBody + 1)
    /\ r_text \in Seq(STRING) /\ r_back.st \in {"none", "ok", "err", "panic"}
    /\ s_text \in Seq(STRING) /\ s_out.st \in {"none", "ok", "err", "panic"}
    /\ p_all.st \in {"none", "ok", "err", "panic"}
    /\ p_one.st \in {"none", "ok", "err", "panic"} /\ Len(p_one.res) <= 1
    /\ t_result \in {"none", "ok", "err", "panic"}

\* ================================================================== claims
ProcIds == 1..Len(procs)

\* The persistent engine processes orchestrator o has spawned so far.
Mains(ps, o) == {p \in 1..Len(ps) : ps[p].owner = o /\ ps[p].role = "main"}

\* The scratch directories made by o that are on disk.
DirsOf(ds, o) == {d \in DirIds : ds[d].creator = o /\ ds[d].exists}

\* A compute call of o returns in this step: at once with an error, or from
\* the blocking wait.
ComputeReturns(o) ==
    \/ pc[o] = "idle" /\ Compute(o) /\ pc'[o] = "idle"
    \/ pc[o] = "compute" /\ Collect(o)

\* C1: number_of_evaluations() starts at 0, never decreases, increases by
\* exactly 1 when a compute call returns success and is unchanged when a
\* compute call returns an error.
C1_CounterStep ==
    \A o \in Orch :
        /\ ncalls'[o] >= ncalls[o]
        /\ (ComputeReturns(o) /\ result'[o] = "ok") => ncalls'[o] = ncalls[o] + 1
        /\ (ComputeReturns(o) /\ result'[o] = "err") => ncalls'[o] = ncalls[o]
C1_InvocationCounter == (\A o \in Orch : ncalls[o] = 0) /\ [][C1_CounterStep]_vars

\* A compute call returned success and a later call returned an error.
C1_Witness == \E o \in Orch : ncalls[o] = 1 /\ result[o] = "err" /\ pc[o] = "idle"

TornDown(o) == life[o] \in {"task_dropped", "gone"}

\* C2, as claimed: after an orchestrator is torn down (Task::drop has slept
\* its grace period), the engine process it holds is no longer running,
\* whatever the child does with the signal it was sent.  (A per-call child is
\* never held at teardown: calls are synchronous.)
C2_NoEngineAfterTeardown ==
    \A p \in ProcIds :
        (TornDown(procs[p].owner) /\ procs[p].role = "main" /\ procs[p].h # "sigfailed") =>
            ~Running(p)

\* C2, amended: after an orchestrator is torn down, its persistent engine
\* process was either found exited (and reaped) or had SIGTERM sent to it
\* (delivered, or the kill error logged) before the grace period; it can
\* still be running when it ignores or outlives the signal.
C2_TerminationAttempted ==
    \A p \in ProcIds :
        (TornDown(procs[p].owner) /\ procs[p].role = "main") =>
            /\ procs[p].h \in {"waited", "signalled", "sigfailed"}
            /\ procs[p].h = "waited" => ~Running(p)

\* A torn-down orchestrator whose engine got SIGTERM and is still running.
C2_Witness ==
    \E p \in ProcIds :
        /\ life[procs[p].owner] = "gone" /\ procs[p].role = "main"
        /\ procs[p].h = "signalled" /\ Running(p)

\* C3: a child spawned for a call is waited for, or sent a termination
\* signal, before its handle is released, whichever stage fails after the
\* spawn.
C3_NoChildReleasedUnattended == \A p \in ProcIds : procs[p].h # "leaked"

\* C5, as claimed: one orchestrator owns at most one scratch directory and has
\* at most one live child process that it spawned.
C5_AtMostOneLiveChild ==
    \A o \in Orch :
        /\ Cardinality(DirsOf(dirs, o)) <= 1
        /\ Cardinality({p \in ProcIds : procs[p].owner = o /\ Running(p)}) <= 1

\* C5, amended: one orchestrator owns at most one scratch directory, at most
\* one persistent engine process, and holds the handle of at most one
\* per-call child; in interactive mode the engine and the per-call child
\* (the interact script) are alive together during a call.
C5_AtMostOneOfEach ==
    \A o \in Orch :
        /\ Cardinality(DirsOf(dirs, o)) <= 1
        /\ Cardinality(Mains(procs, o)) <= 1
        /\ Cardinality({p \in ProcIds : procs[p].owner = o /\ procs[p].role = "call"
                                        /\ procs[p].h = "held"}) <= 1

\* An interactive call in progress: the engine and the per-call child both
\* run, in the one scratch directory.
C5_Witness ==
    \E o \in Orch :
        /\ pc[o] # "idle" /\ task[o] # None /\ Running(task[o]) /\ Running(cur[o])
        /\ DirsOf(dirs, o) = {temp_dir[o]}

\* C6: construction creates no directory; a call made without a stored
\* directory creates at most one, and the one it stores holds the run script;
\* a call made with a stored directory keeps it and creates none; every child
\* is spawned in the stored directory.
C6_Step ==
    \A o \in Orch :
        LET made == {d \in DirIds : dirs[d].creator = None /\ dirs'[d].creator = o} IN
        /\ Cardinality(made) <= 1
        /\ (temp_dir[o] # None /\ life'[o] = "live") => (temp_dir'[o] = temp_dir[o] /\ made = {})
        /\ (temp_dir[o] = None /\ temp_dir'[o] # None) =>
                (made = {temp_dir'[o]} /\ dirs'[temp_dir'[o]] = DirMade(o))
        /\ \A p \in (Len(procs) + 1)..Len(procs') :
                procs'[p].owner = o =>
                    (procs'[p].wd = temp_dir'[o] /\ dirs'[temp_dir'[o]] = DirMade(o))
C7_ScratchRemovedUnlessKept ==
    \A o \in Orch :
        life[o] = "gone" =>
            IF kept[o]
            THEN \/ reported[o] = None /\ DirsOf(dirs, o) = {}
                 \/ reported[o] # None /\ DirsOf(dirs, o) = {reported[o]}
            ELSE DirsOf(dirs, o) = {}

\* One orchestrator gone after keep_scratch_files, its directory on disk.
C7_Witness ==
    \E o \in Orch :
        /\ life[o] = "gone" /\ kept[o] /\ reported[o] # None
        /\ dirs[reported[o]].exists /\ dirs[reported[o]].run

\* C8: two orchestrators configured with the same scratch root never have the
\* same working directory, their children never run in the same directory,
\* and while an orchestrator is alive no step (of its own or of the other)
\* removes or alters its scratch directory.
C8_Distinct ==
    /\ \A o1, o2 \in Orch :
          (o1 # o2 /\ temp_dir[o1] # None) => temp_dir[o1] # temp_dir[o2]
    /\ \A p, q \in ProcIds : procs[p].owner # procs[q].owner => procs[p].wd # procs[q].wd
C8_Untouched ==
    \A o \in Orch :
        (life[o] = "live" /\ temp_dir[o] # None /\ life'[o] = "live") =>
            dirs'[temp_dir[o]] = DirMade(o)
C8_IndependentScratch == []C8_Distinct /\ [][C8_Untouched]_vars

\* One orchestrator is gone and its directory removed; the other is alive and
\* its directory, with the run script, is on disk.
C8_Witness ==
    \E o1, o2 \in Orch :
        /\ o1 # o2
        /\ life[o1] = "gone" /\ \E d \in DirIds : dirs[d].creator = o1 /\ ~dirs[d].exists
        /\ life[o2] = "live" /\ temp_dir[o2] # None /\ dirs[temp_dir[o2]] = DirMade(o2)

\* The interactive session of o: NotStarted, Running, Closed.
Session(l, t, o) ==
    IF l[o] # "live" THEN "Closed" ELSE IF t[o] = None THEN "NotStarted" ELSE "Running"

\* C9: the session goes NotStarted -> Running -> Closed and never back; the
\* persistent engine is spawned only by a call made in NotStarted, which
\* stores it; its pid stays the stored one for every later call; so it is
\* spawned at most once, exactly once when a call has succeeded, and never in
\* one-shot mode.
C9_Step ==
    \A o \in Orch :
        /\ <<Session(life, task, o), Session(life', task', o)>> \in
              {<<"NotStarted", "NotStarted">>, <<"NotStarted", "Running">>,
               <<"NotStarted", "Closed">>, <<"Running", "Running">>,
               <<"Running", "Closed">>, <<"Closed", "Closed">>}
        /\ (task[o] # None /\ life'[o] = "live") => task'[o] = task[o]
        /\ Mains(procs', o) # Mains(procs, o) =>
              /\ Session(life, task, o) = "NotStarted"
              /\ Mains(procs', o) = {task'[o]}
C9_Inv ==
    \A o \in Orch :
        /\ Cardinality(Mains(procs, o)) <= 1
        /\ (int_file[o] /\ ncalls[o] >= 1) => Cardinality(Mains(procs, o)) = 1
        /\ ~int_file[o] => Mains(procs, o) = {}
C9_EngineSpawnedOnce == []C9_Inv /\ [][C9_Step]_vars

\* Two successful interactive calls, one engine process.
C9_Witness ==
    \E o \in Orch :
        /\ int_file[o] /\ ncalls[o] = 2 /\ life[o] = "live"
        /\ Mains(procs, o) = {task[o]}

\* C10, as claimed: a compute call begun after the persistent engine has
\* exited never returns success.
C10_LaterCallsFail == \A o \in Orch : (lost[o] /\ pc[o] = "idle") => result[o] # "ok"

\* C10, amended: once the persistent engine has exited, no later step spawns
\* a replacement and the stored process stays the exited one; a later call
\* still runs the interact script and returns what its output parses to.
C10_Step ==
    \A o \in Orch :
        EngineLost(o) =>
            /\ Mains(procs', o) = Mains(procs, o)
            /\ life'[o] = "live" => (task'[o] = task[o] /\ procs'[task[o]].st = "exited")
C10_NoReplacementEngine == [][C10_Step]_vars

\* A call begun after the engine had exited has returned success, with the
\* one exited engine still stored.
C10_Witness ==
    \E o \in Orch :
        /\ lost[o] /\ pc[o] = "idle" /\ result[o] = "ok"
        /\ Mains(procs, o) = {task[o]} /\ ~Running(task[o])

\* C4: teardown of a process handle never waits on something that may never
\* happen: whatever the child or the control script does, a drop that is in
\* progress can take its next step and finish.
C4_TeardownNeverBlocked == t_pc = "drop_resume" => ENABLED T_DropResumeReturns

\* The steps of an operation, without how they ended.
ErrEvents == {"resume_err", "pause_err", "positions_err", "eof", "read_err", "scan_panic", "energy_panic"}
IsPrefix(a, b) == Len(a) <= Len(b) /\ SubSeq(b, 1, Len(a)) = a
Last(q) == q[Len(q)]
Has(q, e) == \E i \in 1..Len(q) : q[i] = e
UpToError(q) == IF q # <<>> /\ Last(q) \in ErrEvents THEN SubSeq(q, 1, Len(q) - 1) ELSE q

\* The order of an interact call that is the (n+1)-th on its Task.
Protocol(n, int) ==
    (IF n # 0 /\ int THEN <<"resume", "resume_ok">> ELSE <<>>)
    \o (IF n # 0 THEN <<"positions">> ELSE <<>>)
    \o <<"sentinel", "decoded">>
    \o (IF int THEN <<"pause", "pause_ok">> ELSE <<>>)

\* An interact call is in progress or was the latest operation.
InCall == t_calls > 0 /\ t_pc \in {"idle", "resume", "read", "pause", "panicked"}

\* C11: every interact call keeps the protocol order: nothing is sent on the
\* first call; on a later call resume (when a control script is set), then
\* the positions, then the read up to the sentinel and the decoding, and only
\* then pause; a call that returned Ok did all of its steps.
C11_ProtocolOrder ==
    InCall =>
        /\ IsPrefix(UpToError(t_log), Protocol(t_calls - 1, t_int))
        /\ (t_pc = "idle" /\ t_result = "ok") => t_log = Protocol(t_calls - 1, t_int)

C11_Witness ==
    /\ t_calls = 2 /\ t_int /\ t_pc = "idle" /\ t_result = "ok"
    /\ t_log = <<"resume", "resume_ok", "positions", "sentinel", "decoded", "pause", "pause_ok">>

\* C12: an interact call returns Ok only after it read a sentinel line, and a
\* call whose stream ended before a sentinel returns Err.
C12_ResultOnlyAfterSentinel ==
    (InCall /\ t_pc = "idle") =>
        /\ t_result = "ok" => Has(t_log, "sentinel")
        /\ Has(t_log, "eof") => (t_result = "err" /\ ~Has(t_log, "sentinel"))

C12_Witness == t_pc = "idle" /\ t_calls > 0 /\ Has(t_log, "eof") /\ t_result = "err"

\* C13: after an interact call failed because the sentinel was never
\* observed, the engine process has been sent termination.
C13_ProtocolErrorCloses == t_broken => t_sig # "none"

\* C14: on teardown with a control script the resume action is invoked before
\* the kill, and the kill is issued when the resume action returned, Ok or Err.
C14_ResumeBeforeKill ==
    (t_int /\ t_pc \in {"drop_resume", "dropped"}) =>
        /\ t_log # <<>> /\ t_log[1] = "resume"
        /\ t_pc = "drop_resume" => (t_sig = "none" /\ ~Has(t_log, "kill"))
        /\ t_pc = "dropped" => (t_sig # "none" /\ Last(t_log) = "kill")

C14_Witness == t_int /\ t_pc = "dropped" /\ t_log = <<"resume", "resume_err", "kill">>

\* C15: with an interactive control script configured, compute_bunch returns
\* an error without spawning a process: no compute_bunch call of such an
\* orchestrator is ever waiting for a child it spawned.
C15_BunchFailsFast == \A o \in Orch : int_file[o] => pc[o] # "compute_bunch"

\* C16: a call that returned success returned as many results as it was
\* given structures (k for compute_bunch over k structures), whatever the
\* number of result documents in the engine output.
C16_BunchOneToOne ==
    \A o \in Orch : (pc[o] = "idle" /\ result[o] = "ok") => nres[o] = nmols[o]

\* C17: a successful compute_bunch call over k structures increases
\* number_of_evaluations() by exactly 1.
C17_Step ==
    \A o \in Orch :
        (pc[o] = "compute_bunch" /\ Collect(o) /\ result'[o] = "ok") => ncalls'[o] = ncalls[o] + 1
C17_BunchCountsOnce == [][C17_Step]_vars

\* A compute_bunch call over two structures returned two results, as the
\* first successful call.
C17_Witness ==
    \E o \in Orch : pc[o] = "idle" /\ result[o] = "ok" /\ nmols[o] = 2 /\ nres[o] = 2 /\ ncalls[o] = 1

\* The documents of a list of kept lines, read off the positions of its
\* version markers: the lines after the first fall into maximal runs of lines
\* that are not version markers, and each run is a document.
DocsOf(K) ==
    LET starts == {j \in 2..Len(K) : K[j] # VersionMarker /\ (j = 2 \/ K[j - 1] = VersionMarker)}
        ends == {j \in 2..Len(K) : K[j] # VersionMarker /\ (j = Len(K) \/ K[j + 1] = VersionMarker)}
        nth(S, i) == CHOOSE j \in S : Cardinality({x \in S : x < j}) = i - 1
    IN  [i \in 1..Cardinality(starts) |-> SubSeq(K, nth(starts, i), nth(ends, i))]
KeptText == Kept(p_text)
NumMarkers == Cardinality({i \in 1..Len(p_text) : p_text[i] = VersionMarker})

\* C18, as claimed: parse_all on a stream with N >= 1 version-marker lines
\* returns exactly N results, whatever the documents hold.
C18_OneResultPerMarker ==
    (p_all.st = "ok" /\ NumMarkers >= 1) => Len(p_all.res) = NumMarkers

\* C18, amended: parse_all returns one result for each document that has at
\* least one line, in order, the i-th built from the lines of the i-th such
\* document; the first kept line of the stream is not looked at and a
\* document without lines gives no result.  parse() returns the result of
\* the last such document and an error when there is none.
C18_OneResultPerDocument ==
    (p_all.st = "ok" \/ p_one.st = "ok") =>
        LET docs == DocsOf(KeptText) IN
        /\ p_all.st = "ok" =>
              /\ Len(p_all.res) = Len(docs)
              /\ \A i \in 1..Len(docs) :
                    Outcome("ok", <<p_all.res[i]>>) \in parse_model_results_single(docs[i])
        /\ p_one.st = "ok" =>
              /\ Len(docs) >= 1
              /\ Outcome("ok", p_one.res) \in parse_model_results_single(docs[Len(docs)])
        /\ (p_all.st = "ok" /\ Len(docs) = 0 /\ p_one.st # "none") => p_one.st = "err"

\* Two documents with different results, parsed by both.
C18_Witness ==
    /\ p_all.st = "ok" /\ Len(p_all.res) = 2 /\ p_all.res[1] # p_all.res[2]
    /\ p_one.st = "ok" /\ p_one.res = <<p_all.res[2]>>
    /\ NumMarkers = 2

\* C19: parsing a text that is empty, blank, or made of comment lines and
\* blank lines only returns an error from parse_all and from parse().
C19_EmptyInputIsParseError ==
    KeptText = <<>> => (p_all.st \in {"none", "err"} /\ p_one.st \in {"none", "err"})

\* The number of data lines of document d that are collected under header h.
DataUnder(d, h) ==
    Cardinality({i \in 1..Len(d) :
        /\ ~StartsWithAt(d[i])
        /\ \E j \in 1..(i - 1) : d[j] = h /\ \A m \in (j + 1)..(i - 1) : ~StartsWithAt(d[m])})

\* Some document has an energy or dipole section whose number of data lines
\* is not one.
NotOneLine ==
    LET docs == DocsOf(KeptText) IN
    \E i \in 1..Len(docs), h \in {"@energy", "@dipole"} :
        (\E j \in 1..Len(docs[i]) : docs[i][j] = h) /\ DataUnder(docs[i], h) # 1

\* C20: an energy or dipole section with a number of data lines other than
\* one makes the parse return an error.
C20_OneLineSections ==
    (p_all.st \notin {"none", "err"} \/ p_one.st \notin {"none", "err"}) => ~NotOneLine

\* The name of a header line is none of structure, energy, forces, dipole.
UnknownSection(l) ==
    StartsWithAt(l) /\ l # VersionMarker
        /\ HeaderName(l) \notin {"structure", "energy", "forces", "dipole"}

\* The text without its sections of unknown name: their header lines and the
\* data lines that follow them up to the next header line are left out.
RECURSIVE WithoutUnknown(_, _)
WithoutUnknown(text, skipping) ==
    IF text = <<>> THEN <<>>
    ELSE LET l == Head(text)
             skip == IF StartsWithAt(l) THEN UnknownSection(l) ELSE skipping
         IN  (IF skip THEN <<>> ELSE <<l>>) \o WithoutUnknown(Tail(text), skip)

\* C21: a section of unknown name never makes the parse fail: when parse_all
\* ends in an error or a panic on a text, it can end in the same way on the
\* text without its sections of unknown name.
C21_UnknownSectionIgnored ==
    p_all.st \in {"err", "panic"} => p_all \in parse_model_results(WithoutUnknown(p_text, FALSE))

\* The factor a header line declares: the value of its unit_factor modifier,
\* 1 for a header without one.
DeclaredFactor(h) ==
    CASE h \in {"@energy unit_factor=-1", "@dipole unit_factor=-1"} -> 0 - 1
      [] h \in {"@forces unit_factor=2 test=2", "@structure unit_factor=2"} -> 2
      [] OTHER -> 1

\* The data lines of document d that stand under header line h.
LinesUnder(d, h) ==
    LET under(i) == /\ ~StartsWithAt(d[i])
                    /\ \E j \in 1..(i - 1) : d[j] = h /\ \A m \in (j + 1)..(i - 1) : ~StartsWithAt(d[m])
        idx == {i \in 1..Len(d) : under(i)}
        nth(i) == CHOOSE j \in idx : Cardinality({x \in idx : x < j}) = i - 1
    IN  [i \in 1..Cardinality(idx) |-> d[nth(i)]]

\* The numbers of a data line, each multiplied by f.
Scaled(l, f) == LET w == split_whitespace(l) IN [j \in 1..Len(w) |-> ParseFloat(w[j]) * f]

\* The header lines of document d with the given section name.
HeadersNamed(d, name) == {d[i] : i \in {j \in 1..Len(d) : StartsWithAt(d[j]) /\ HeaderName(d[j]) = name}}

\* C22: in a parsed document, the energy, the forces and the dipole are the
\* numbers of the data lines under one header of that name, each multiplied
\* by the factor that header declares (1 when it declares none); the factors
\* of the other headers play no part.
C22_UnitFactorPerSection ==
    (p_all.st = "ok" /\ Len(p_all.res) = 1) =>
        LET c == p_all.res[1]
            d == Tail(p_text)
        IN  /\ c.energy # <<>> =>
                  \E h \in HeadersNamed(d, "energy") :
                      /\ Len(LinesUnder(d, h)) = 1
                      /\ <<c.energy[1]>> = Scaled(LinesUnder(d, h)[1], DeclaredFactor(h))
            /\ c.forces # <<>> =>
                  \E h \in HeadersNamed(d, "forces") :
                      c.forces[1] = [i \in 1..Len(LinesUnder(d, h)) |->
                                         Scaled(LinesUnder(d, h)[i], DeclaredFactor(h))]
            /\ c.dipole # <<>> =>
                  \E h \in HeadersNamed(d, "dipole") :
                      /\ Len(LinesUnder(d, h)) = 1
                      /\ c.dipole[1] = Scaled(LinesUnder(d, h)[1], DeclaredFactor(h))

\* A document with an energy section of factor -1 and a forces section of
\* factor 2 was parsed: the energy is negated, the forces are doubled.
C22_Witness ==
    /\ p_text = <<VersionMarker, "@energy unit_factor=-1", "1", "@forces unit_factor=2 test=2", "1 2 1">>
    /\ p_all.st = "ok"
    /\ p_all.res[1].energy = <<0 - 1>>
    /\ p_all.res[1].forces = << << <<2, 4, 2>> >> >>

\* The atoms of the atom lines under header line h of document d, with the
\* coordinates multiplied by f.
ScaledAtoms(d, h, f) ==
    LET ls == SelectSeq(LinesUnder(d, h), LAMBDA l : l \in AtomLines)
    IN  [i \in 1..Len(ls) |-> <<Atom(ls[i])[1], Atom(ls[i])[2] * f, Atom(ls[i])[3] * f, Atom(ls[i])[4] * f>>]

\* C23: in a parsed document the structure holds the atoms of the lines under
\* one structure header, with the coordinates multiplied by the factor that
\* header declares.
C23_StructureUnitFactor ==
    (p_all.st = "ok" /\ Len(p_all.res) = 1 /\ p_all.res[1].molecule # <<>>) =>
        \E h \in HeadersNamed(Tail(p_text), "structure") :
            p_all.res[1].molecule[1] = ScaledAtoms(Tail(p_text), h, DeclaredFactor(h))

\* A parsed number is the number x as written, and nothing of x was rounded away.
SameFloat(x, v) == ~x.more /\ x.shown = v
SameRow(t, w) == \A j \in 1..3 : SameFloat(t[j], w[j])

\* C24: whatever fields of r_val are set, parsing the text written for r_val
\* succeeds and gives a value in which energy, forces and dipole are set
\* exactly when they are set in r_val, with the same numbers.
C24_RoundTrip ==
    r_back.st # "none" =>
        /\ r_back.st = "ok"
        /\ LET b == r_back.res[1] IN
           /\ (b.energy = <<>>) = (r_val.energy = <<>>)
           /\ (b.forces = <<>>) = (r_val.forces = <<>>)
           /\ (b.dipole = <<>>) = (r_val.dipole = <<>>)
           /\ r_val.energy # <<>> => SameFloat(r_val.energy[1], b.energy[1])
           /\ r_val.forces # <<>> =>
                 /\ Len(b.forces[1]) = Len(r_val.forces[1])
                 /\ \A i \in 1..Len(b.forces[1]) : SameRow(r_val.forces[1][i], b.forces[1][i])
           /\ r_val.dipole # <<>> => SameRow(r_val.dipole[1], b.dipole[1])

\* The text has no line starting with FORCES:, or such a line is its first
\* line, or the lines after it are not force lines followed by an energy line.
NoForcesBlock ==
    \/ \A i \in 1..Len(s_text) : ~StartsWithForces(s_text[i])
    \/ (s_text # <<>> /\ StartsWithForces(s_text[1]))
    \/ read_energy_and_forces(s_text) = <<>>

\* C25: on a text without a usable FORCES: block parse_energy_and_forces
\* returns an error value: it does not panic and returns no result.
C25_MissingForcesIsError ==
    (s_out.st # "none" /\ NoForcesBlock) => s_out.st = "err"

\* The first line that reads FORCES:, 0 when there is none.
FirstForces ==
    IF \E i \in 1..Len(s_text) : s_text[i] = ForcesTag
    THEN CHOOSE i \in 1..Len(s_text) : s_text[i] = ForcesTag /\ \A m \in 1..(i - 1) : s_text[m] # ForcesTag
    ELSE 0

\* The number of force lines (blanks, then three numbers) that follow line j
\* without a gap.
BlockLen(j) ==
    CHOOSE n \in 0..(Len(s_text) - j) :
        /\ \A i \in (j + 1)..(j + n) : s_text[i] \in XyzLines
        /\ (j + n = Len(s_text) \/ s_text[j + n + 1] \notin XyzLines)

\* The force triples of the n lines after line j, and the E0 value written
\* in line i.
BlockForces(j, n) == [i \in 1..n |-> read_xyz(s_text[j + i])[1]]
E0Value(i) == IF s_text[i] = " 1 F= 1 E0= 2" THEN 2 ELSE 0

\* C30, as claimed: when the first FORCES: line is followed by force lines
\* and an energy line stands anywhere after them, the scanner returns the
\* triples of the force lines, in order, and the E0 value of that line.
C30_EnergyLocatedAfterBlock ==
    LET j == FirstForces
        n == BlockLen(j)
    IN  (s_out.st # "none" /\ j > 1 /\ n >= 1 /\ \E i \in (j + n + 1)..Len(s_text) : s_text[i] = EnergyLine) =>
            \E i \in (j + n + 1)..Len(s_text) :
                /\ s_text[i] = EnergyLine
                /\ s_out = Outcome("ok", <<[energy |-> E0Value(i), forces |-> BlockForces(j, n)]>>)

\* C30, amended: the scanner returns a result only when the first line that
\* reads FORCES: is followed by at least one force line and the line right
\* after the last force line is an energy line; the result then holds one
\* triple for each of those force lines, in order, and the E0 value of that
\* energy line.  With these lines in place the scanner fails only when
\* the first line of the text starts with FORCES:.
C30_ForcesThenEnergy ==
    LET j == FirstForces
        n == BlockLen(j)
        block == j >= 1 /\ n >= 1 /\ j + n + 1 <= Len(s_text) /\ s_text[j + n + 1] = EnergyLine
    IN  /\ s_out.st = "ok" =>
              block /\ s_out.res = <<[energy |-> E0Value(j + n + 1), forces |-> BlockForces(j, n)]>>
        /\ (s_out.st \notin {"none", "ok"} /\ block) => StartsWithForces(s_text[1])

\* A text with two force lines and the energy line right after them was scanned.
C30_Witness ==
    /\ s_text = <<ElectronStep, ForcesTag, " 4 5 6", " 1 2 3", EnergyLine>>
    /\ s_out = Outcome("ok", <<[energy |-> 2, forces |-> << <<4, 5, 6>>, <<1, 2, 3>> >>]>>)

\* C26: teardown ends without an error and without a panic.  Dropping a
\* BlackBoxModel (its task, then its scratch directory) or consuming it with
\* keep_scratch_files leaves the control state of its owner and the result
\* of the latest call as they were, whether a child was spawned, is running
\* or has exited, and whether the signal could be sent; every step of
\* dropping a Task (task.rs) leads to the next step of the drop or to its
\* end, whether the resume script and the kill succeed or fail, and leaves
\* the result of the latest interact call as it was.
C26_Step ==
    /\ \A o \in Orch : life'[o] # life[o] => (pc'[o] = pc[o] /\ result'[o] = result[o])
    /\ (t_pc' # t_pc /\ (t_pc = "drop_resume" \/ t_pc' \in {"drop_resume", "dropped"})) =>
           (t_pc' \in {"drop_resume", "dropped"} /\ t_result' = t_result)
C26_TeardownNeverFails == [][C26_Step]_vars

\* An orchestrator was dropped after a call that returned an error, with a
\* running child that the signal could not be sent to.
C26_Witness ==
    \E o \in Orch :
        /\ life[o] = "gone" /\ result[o] = "err" /\ pc[o] = "idle"
        /\ \E p \in 1..Len(procs) : procs[p].owner = o /\ procs[p].h = "sigfailed"

\* C27: a compute call never ends in a panic: when the atom count of the
\* parsed structure differs from that of the input structure, the call still
\* returns, and a call that returns its result has increased the invocation
\* counter by one.
C27_Step ==
    \A o \in Orch :
        pc[o] = "compute" =>
            /\ pc'[o] # "panicked"
            /\ result'[o] = "ok" => ncalls'[o] = ncalls[o] + 1
C27_MismatchNonFatal == [][C27_Step]_vars

\* The first part of a call of orchestrator o without a control script, in
\* which stage `fail` failed ("none": no stage did).
OneShotCall(o, fail) ==
    /\ pc[o] = "idle" /\ life[o] = "live" /\ ~int_file[o]
    /\ Applicable(o, fail)
    /\ Call(o, "compute", fail) \/ Call(o, "compute_bunch", fail)

\* The number of processes spawned in a step.
Spawned == Len(procs') - Len(procs)

\* C28, as claimed: a one-shot call spawns the engine exactly once whenever
\* rendering and the preparation of the scratch directory have succeeded.
C28_Claimed_Step ==
    \A o \in Orch, fail \in Stages :
        (OneShotCall(o, fail) /\ fail \notin {"render", "mkdir", "copy", "canon"}) => Spawned = 1
C28_SpawnedOnceWhenPrepared == [][C28_Claimed_Step]_vars

\* C28, amended: no step spawns more than one process for a one-shot call,
\* and the rest of the call, after the wait, spawns none; the call spawns
\* exactly one process when no stage before the spawn and not the spawn
\* itself failed, and none when rendering, the preparation of the scratch
\* directory, the lookup of the template and current directories or the
\* spawn failed.
C28_Step ==
    \A o \in Orch :
        /\ \A fail \in Stages :
              OneShotCall(o, fail) =>
                  Spawned = IF fail \in {"none", "write"} THEN 1 ELSE 0
        /\ (~int_file[o] /\ pc[o] \in {"compute", "compute_bunch"} /\ pc'[o] # pc[o]) => Spawned = 0
C28_NoRetry == [][C28_Step]_vars

\* A one-shot call returned an error after its only process was waited for,
\* and no other process was spawned for it.
C28_Witness ==
    \E o \in Orch :
        /\ ~int_file[o] /\ pc[o] = "idle" /\ result[o] = "err" /\ ncalls[o] = 0
        /\ Len(procs) = 1 /\ procs[1].owner = o /\ procs[1].h = "waited"

\* C29: when a scratch directory is removed, the orchestrator that made it
\* has dropped its task before: the persistent child that runs in the
\* directory, if there is one, was found exited or was sent the signal (or
\* the sending failed) and the wait that follows the signal is over.
C29_Step ==
    \A d \in DirIds :
        (dirs[d].exists /\ ~dirs'[d].exists) =>
            \A p \in ProcIds :
                (procs[p].role = "main" /\ procs[p].wd = d) =>
                    /\ procs[p].h \in {"waited", "signalled", "sigfailed"}
                    /\ task[procs[p].owner] = None
                    /\ procs[p].h # "waited" => waited[procs[p].owner] \in {1, 11}
C29_ChildTerminatedBeforeRemoval == [][C29_Step]_vars

\* An orchestrator is gone: its persistent child was sent the signal and was
\* still running after the wait, and its scratch directory was removed after that.
C29_Witness ==
    \E o \in Orch, p \in ProcIds :
        /\ life[o] = "gone" /\ ~kept[o]
        /\ procs[p].owner = o /\ procs[p].role = "main" /\ procs[p].h = "signalled"
        /\ procs[p].st = "running" /\ waited[o] = 11
        /\ ~dirs[procs[p].wd].exists

\* C31: the text that a submit hands to the scanner is exactly the lines the
\* engine wrote between the previous sentinel line and the sentinel line that
\* ends the submit, in order: once the sentinel was read in a call, the text
\* of the call followed by that sentinel is all that was taken from the
\* stream after the previous sentinel.
C31_TextIsTheBlock == Has(t_log, "sentinel") => t_block = Append(t_text, "sentinel")

\* C32: a submit returns the energy the scanner extracted, whatever its sign:
\* once the scanner has extracted an energy in a call, that energy is the
\* energy of the result being built, and the call has not panicked.
C32_EnergyStoredWhateverSign == t_scan # <<>> => t_energy = t_scan /\ t_pc # "panicked"

\* C33: when the Task that is dropped holds a child that has already exited,
\* the drop reaps it, sends no signal to its pid and does not sleep; a signal
\* is sent (or its sending attempted) only to a child that had not exited
\* when the drop looked.
C33_Step ==
    \A o \in Orch :
        (task[o] # None /\ task'[o] = None) =>
            /\ procs[task[o]].st = "exited" =>
                   (procs'[task[o]].h = "waited" /\ waited'[o] = 0)
            /\ procs'[task[o]].h \in {"signalled", "sigfailed"} => procs[task[o]].st = "running"
C33_NoSignalAfterExit == [][C33_Step]_vars

\* A Task was dropped whose engine had exited: it was reaped, without a sleep.
C33_Witness ==
    \E o \in Orch : \E p \in 1..Len(procs) :
        /\ task[o] = None /\ waited[o] = 0
        /\ procs[p].owner = o /\ procs[p].role = "main" /\ procs[p].h = "waited"

\* A step in which orchestrator o is called (compute or compute_bunch) and
\* the rendering of the input fails.
RenderFails(o) ==
    /\ pc[o] = "idle" /\ life[o] = "live"
    /\ Call(o, "compute", "render") \/ Call(o, "compute_bunch", "render")

\* C34: a call whose input rendering fails returns an error and leaves the
\* orchestrator as it was: no directory is created or removed, no process is
\* spawned or signalled, and the invocation counter, the stored scratch
\* directory, the stored engine process and the per-call child are unchanged.
C34_Step ==
    \A o \in Orch :
        RenderFails(o) =>
            /\ result'[o] = "err" /\ pc'[o] = "idle"
            /\ dirs' = dirs /\ procs' = procs
            /\ ncalls'[o] = ncalls[o] /\ temp_dir'[o] = temp_dir[o]
            /\ task'[o] = task[o] /\ cur'[o] = cur[o]
C34_RenderFailureHasNoEffect == [][C34_Step]_vars

\* A compute_bunch call of more than one structure returned an error without
\* a process of its own, after one call that succeeded: the counter, the
\* directory and the one process of the earlier call are what they were.
C34_Witness ==
    \E o \in Orch :
        /\ pc[o] = "idle" /\ result[o] = "err" /\ nmols[o] > 1 /\ ncalls[o] = 1
        /\ temp_dir[o] # None /\ dirs[temp_dir[o]].exists
        /\ Len(procs) = 1 /\ procs[1].h = "waited"

\* C35: when a call creates a scratch directory and the run script is not
\* copied into it (it cannot be read, or not written), the call returns the
\* error, the directory is removed before the call returns, the orchestrator
\* stores no directory and spawns nothing; and a call that stores a directory
\* stores one that did not exist before, with the run script copied into it.
C35_Step ==
    \A o \in Orch :
        /\ \A d \in DirIds :
              (dirs[d].creator = None /\ dirs'[d].creator = o /\ ~dirs'[d].run) =>
                  /\ ~dirs'[d].exists
                  /\ temp_dir[o] = None /\ temp_dir'[o] = None
                  /\ result'[o] = "err" /\ pc'[o] = "idle"
                  /\ procs' = procs
        /\ (temp_dir[o] = None /\ temp_dir'[o] # None) =>
              /\ dirs[temp_dir'[o]].creator = None
              /\ dirs'[temp_dir'[o]] = DirMade(o)
C35_FailedCopyLeavesNoDirectory == [][C35_Step]_vars

\* After a call in which the run script could not be copied, a later call
\* made another directory, which holds the run script and is stored.
C35_Witness ==
    \E o \in Orch : \E d, e \in DirIds :
        /\ d # e
        /\ dirs[d] = [exists |-> FALSE, creator |-> o, run |-> FALSE]
        /\ temp_dir[o] = e /\ dirs[e] = DirMade(o)

\* The text has a structure section.
HasStructure == \E i \in 1..Len(p_text) : StartsWithAt(p_text[i]) /\ HeaderName(p_text[i]) = "structure"

\* C36: parsing is deterministic: the result parse_all gave for a text is the
\* only result that parsing this text can give, whatever the order in which
\* the section table is iterated (stated for the texts without a structure
\* section, whose data lines are read by this parser alone).
C36_ParsingIsDeterministic ==
    (p_all.st # "none" /\ ~HasStructure) => parse_model_results(p_text) = {p_all}

\* The text with its first line that is neither a comment nor blank replaced by l.
ReplaceFirstKept(text, l) ==
    LET i == CHOOSE j \in 1..Len(text) :
                 /\ text[j] \notin {Comment, Blank}
                 /\ \A m \in 1..(j - 1) : text[m] \in {Comment, Blank}
    IN  [text EXCEPT ![i] = l]

\* The lines of a document from its first section header on.
RECURSIVE FromFirstHeader(_)
FromFirstHeader(doc) ==
    IF doc = <<>> \/ StartsWithAt(Head(doc)) THEN doc ELSE FromFirstHeader(Tail(doc))

\* C37: parse_all does not look at the first line of the stream that is
\* neither a comment nor blank: with that line replaced by a version marker,
\* a section header or a data line, parsing ends in the same ways with the
\* same results; and the lines of a document before its first section header
\* add nothing to the result of the document.
C37_FirstLineNotInspected ==
    (p_all.st # "none" /\ KeptText # <<>>) =>
        /\ \A l \in TextLines \ {Comment, Blank} :
              parse_model_results(ReplaceFirstKept(p_text, l)) = parse_model_results(p_text)
        /\ \A i \in 1..Len(DocsOf(KeptText)) :
              parse_model_results_single(FromFirstHeader(DocsOf(KeptText)[i]))
                  = parse_model_results_single(DocsOf(KeptText)[i])

\* A stream that begins with two data lines was parsed: the first was
\* skipped, the second is in the document before its first header, and the
\* result holds the energy of the section that follows.
C37_Witness ==
    /\ p_all.st = "ok" /\ Len(p_all.res) = 1 /\ p_all.res[1].energy # <<>>
    /\ Len(KeptText) >= 2 /\ KeptText[1] \in DataLines /\ KeptText[2] \in DataLines

====
